---- MODULE Spec2Model ----
(***************************************************************************)
(* NodeFlow shading-network conversion engine (src/Maya/NodeFlow.py):      *)
(* planner (collect_data), validator (validate_transfer), graph converter  *)
(* (build_converted_node, resolve_output_plug), executor (do_transfer,     *)
(* assign_shader_to_meshes) and the tool's _scan / _transfer handlers,     *)
(* over a model of the host scene graph the maya.cmds calls read and       *)
(* write.                                                                  *)
(*                                                                         *)
(* A node name is a sequence of name pieces: <<"B1">> is a node of the     *)
(* scene, <<"B1", "_RSconv", 0>> the node shadingNode(name="B1_RSconv")    *)
(* creates, <<"B1", "_RSconv", 1>> the next free name.  A plug is          *)
(* <<node, attribute>>.  A literal is [t |-> type, v |-> components].      *)
(***************************************************************************)
EXTENDS Integers, Sequences, FiniteSets, TLC

\* ------------------------------------------------------------------------
\*  Static catalogs (NodeFlow.py 55-391)
\* ------------------------------------------------------------------------

NODE_CONVERSION_TABLE ==
  [
   bump2d |->
     [
      Redshift |-> [type |-> "RedshiftBumpMap", inputs |-> <<<<"bumpValue", "input">>>>,
                   outputs |-> <<<<"outNormal", "out">>>>, post_set |-> <<<<"inputType", 0>>>>],
      Arnold |-> [type |-> "bump2d", inputs |-> <<<<"bumpValue", "bumpValue">>>>,
                   outputs |-> <<<<"outNormal", "outNormal">>>>, post_set |-> <<>>],
      Maya |-> [type |-> "bump2d", inputs |-> <<<<"bumpValue", "bumpValue">>>>,
                   outputs |-> <<<<"outNormal", "outNormal">>>>, post_set |-> <<>>]
     ],
   aiNormalMap |->
     [
      Redshift |-> [type |-> "RedshiftBumpMap", inputs |-> <<<<"input", "input">>>>,
                   outputs |-> <<<<"outValue", "out">>>>, post_set |-> <<<<"inputType", 1>>>>],
      Arnold |-> [type |-> "aiNormalMap", inputs |-> <<<<"input", "input">>>>,
                   outputs |-> <<<<"outValue", "outValue">>>>, post_set |-> <<>>],
      Maya |-> [type |-> "bump2d", inputs |-> <<<<"input", "bumpValue">>>>,
                   outputs |-> <<<<"outValue", "outNormal">>>>, post_set |-> <<<<"bumpInterp",
       1>>>>]
     ],
   RedshiftBumpMap |->
     [
      Arnold |-> [type |-> "aiNormalMap", inputs |-> <<<<"input", "input">>>>,
                   outputs |-> <<<<"out", "outValue">>>>, post_set |-> <<>>],
      Maya |-> [type |-> "bump2d", inputs |-> <<<<"input", "bumpValue">>>>,
                   outputs |-> <<<<"out", "outNormal">>>>, post_set |-> <<<<"bumpInterp", 1>>>>]
     ],
   aiColorCorrect |->
     [
      Redshift |-> [type |-> "rsColorCorrect", inputs |-> <<<<"input", "input">>>>,
                   outputs |-> <<<<"outColor", "outColor">>>>, post_set |-> <<>>],
      Arnold |-> [type |-> "aiColorCorrect", inputs |-> <<<<"input", "input">>>>,
                   outputs |-> <<<<"outColor", "outColor">>>>, post_set |-> <<>>],
      Maya |-> [type |-> "colorCorrect", inputs |-> <<<<"input", "inColor">>>>,
                   outputs |-> <<<<"outColor", "outColor">>>>, post_set |-> <<>>]
     ],
   rsColorCorrect |->
     [
      Arnold |-> [type |-> "aiColorCorrect", inputs |-> <<<<"input", "input">>>>,
                   outputs |-> <<<<"outColor", "outColor">>>>, post_set |-> <<>>],
      Maya |-> [type |-> "colorCorrect", inputs |-> <<<<"input", "inColor">>>>,
                   outputs |-> <<<<"outColor", "outColor">>>>, post_set |-> <<>>],
      Redshift |-> [type |-> "rsColorCorrect", inputs |-> <<<<"input", "input">>>>,
                   outputs |-> <<<<"outColor", "outColor">>>>, post_set |-> <<>>]
     ],
   aiRange |->
     [
      Redshift |-> [type |-> "rsRange", inputs |-> <<<<"input", "input">>>>,
                   outputs |-> <<<<"outColor", "outColor">>>>, post_set |-> <<>>],
      Maya |-> [type |-> "remapValue", inputs |-> <<<<"input", "inputValue">>>>,
                   outputs |-> <<<<"outColor", "outValue">>>>, post_set |-> <<>>],
      Arnold |-> [type |-> "aiRange", inputs |-> <<<<"input", "input">>>>,
                   outputs |-> <<<<"outColor", "outColor">>>>, post_set |-> <<>>]
     ],
   aiMultiply |->
     [
      Redshift |-> [type |-> "rsColorLayer", inputs |-> <<<<"input1", "input1">>>>,
                   outputs |-> <<<<"outColor", "outColor">>>>, post_set |-> <<>>],
      Maya |-> [type |-> "multiplyDivide", inputs |-> <<<<"input1", "input1">>>>,
                   outputs |-> <<<<"outColor", "output">>>>, post_set |-> <<>>],
      Arnold |-> [type |-> "aiMultiply", inputs |-> <<<<"input1", "input1">>>>,
                   outputs |-> <<<<"outColor", "outColor">>>>, post_set |-> <<>>]
     ]
  ]

PASSTHROUGH_NODES ==
  {"file", "place2dTexture", "colorCorrect", "remapValue", "remapColor", "remapHsv",
       "multiplyDivide", "clamp", "reverse", "blendColors", "condition", "ramp", "noise",
       "fractal", "stencil", "layeredTexture", "gammaCorrect", "hsvToRgb", "rgbToHsv",
       "unitConversion", "luminance"}

RENDERER_MATERIALS ==
  <<<<"Redshift", <<"RedshiftStandardMaterial", "RedshiftArchitectural", "RedshiftCarPaint",
       "RedshiftHair", "RedshiftIncandescent", "RedshiftMaterial", "RedshiftMaterialBlender",
       "RedshiftMatteShadowCatcher", "RedshiftOSLSurfaceShader", "RedshiftOpenPBRMaterial",
       "RedshiftPrincipledHair", "RedshiftShaderSwitch", "RedshiftSkin", "RedshiftSprite",
       "RedshiftSubSurfaceScatter", "RedshiftToonMaterial">>>>,
    <<"Arnold", <<"aiStandardSurface", "aiFlat", "aiAmbientOcclusion", "aiCarPaint", "aiHair",
       "aiLayerShader", "aiMatte", "aiMixShader", "aiShadowMatte", "aiSkin", "aiToon",
       "aiWireframe">>>>,
    <<"Maya", <<"standardSurface", "lambert", "blinn", "phong", "phongE", "surfaceShader">>>>,
    <<"MASH", <<"MASH">>>>>>

MASTER_MAP ==
  [
   baseColor |->
     [RedshiftStandardMaterial |-> <<"base_color", "outColor">>,
      RedshiftMaterial |-> <<"diffuse_color", "outColor">>,
      RedshiftArchitectural |-> <<"diffuse", "outColor">>,
      RedshiftCarPaint |-> <<"base_color", "outColor">>,
      RedshiftSkin |-> <<"overall_color", "outColor">>,
      RedshiftToonMaterial |-> <<"base_color", "outColor">>,
      RedshiftOpenPBRMaterial |-> <<"base_color", "outColor">>,
      aiStandardSurface |-> <<"baseColor", "outColor">>,
      aiFlat |-> <<"color", "outColor">>,
      aiToon |-> <<"base_color", "outColor">>,
      standardSurface |-> <<"baseColor", "outColor">>,
      lambert |-> <<"color", "outColor">>,
      blinn |-> <<"color", "outColor">>,
      phong |-> <<"color", "outColor">>,
      phongE |-> <<"color", "outColor">>,
      surfaceShader |-> <<"outColor", "outColor">>,
      MASH |-> <<"MASH_Color.texture", "outColor">>],
   color |->
     [RedshiftStandardMaterial |-> <<"base_color", "outColor">>,
      RedshiftMaterial |-> <<"diffuse_color", "outColor">>,
      aiStandardSurface |-> <<"baseColor", "outColor">>,
      standardSurface |-> <<"baseColor", "outColor">>,
      lambert |-> <<"color", "outColor">>,
      blinn |-> <<"color", "outColor">>,
      phong |-> <<"color", "outColor">>,
      phongE |-> <<"color", "outColor">>,
      MASH |-> <<"MASH_Color.texture", "outColor">>],
   specularRoughness |->
     [RedshiftStandardMaterial |-> <<"refl_roughness", "outAlpha">>,
      RedshiftMaterial |-> <<"refl_roughness", "outAlpha">>,
      RedshiftOpenPBRMaterial |-> <<"specular_roughness", "outAlpha">>,
      RedshiftToonMaterial |-> <<"refl_roughness", "outAlpha">>,
      aiStandardSurface |-> <<"specularRoughness", "outAlpha">>,
      standardSurface |-> <<"specularRoughness", "outAlpha">>,
      blinn |-> <<"eccentricity", "outAlpha">>,
      MASH |-> <<"MASH_Distribute.strengthMap", "outAlpha">>],
   eccentricity |->
     [RedshiftStandardMaterial |-> <<"refl_roughness", "outAlpha">>,
      aiStandardSurface |-> <<"specularRoughness", "outAlpha">>,
      standardSurface |-> <<"specularRoughness", "outAlpha">>],
   roughness |->
     [RedshiftStandardMaterial |-> <<"refl_roughness", "outAlpha">>,
      aiStandardSurface |-> <<"specularRoughness", "outAlpha">>,
      standardSurface |-> <<"specularRoughness", "outAlpha">>],
   metalness |->
     [RedshiftStandardMaterial |-> <<"metalness", "outAlpha">>,
      RedshiftOpenPBRMaterial |-> <<"metalness", "outAlpha">>,
      aiStandardSurface |-> <<"metalness", "outAlpha">>,
      standardSurface |-> <<"metalness", "outAlpha">>,
      MASH |-> <<"MASH_Distribute.strengthMap", "outAlpha">>],
   specularColor |->
     [RedshiftStandardMaterial |-> <<"refl_color", "outColor">>,
      RedshiftMaterial |-> <<"refl_color", "outColor">>,
      aiStandardSurface |-> <<"specularColor", "outColor">>,
      standardSurface |-> <<"specularColor", "outColor">>,
      blinn |-> <<"specularColor", "outColor">>,
      phong |-> <<"specularColor", "outColor">>,
      phongE |-> <<"specularColor", "outColor">>],
   emissionColor |->
     [RedshiftStandardMaterial |-> <<"emission_color", "outColor">>,
      RedshiftIncandescent |-> <<"color", "outColor">>,
      RedshiftOpenPBRMaterial |-> <<"emission_color", "outColor">>,
      aiStandardSurface |-> <<"emissionColor", "outColor">>,
      standardSurface |-> <<"emissionColor", "outColor">>,
      MASH |-> <<"MASH_Color.texture", "outColor">>],
   incandescence |->
     [RedshiftStandardMaterial |-> <<"emission_color", "outColor">>,
      RedshiftIncandescent |-> <<"color", "outColor">>,
      aiStandardSurface |-> <<"emissionColor", "outColor">>,
      standardSurface |-> <<"emissionColor", "outColor">>],
   opacity |->
     [RedshiftStandardMaterial |-> <<"opacity_color", "outColor">>,
      RedshiftMaterial |-> <<"opacity_color", "outColor">>,
      RedshiftSprite |-> <<"opacity_color", "outColor">>,
      aiStandardSurface |-> <<"opacity", "outColor">>,
      standardSurface |-> <<"opacity", "outColor">>,
      MASH |-> <<"MASH_Distribute.strengthMap", "outAlpha">>],
   transparency |->
     [RedshiftStandardMaterial |-> <<"opacity_color", "outColor">>,
      aiStandardSurface |-> <<"opacity", "outColor">>,
      standardSurface |-> <<"opacity", "outColor">>,
      MASH |-> <<"MASH_Distribute.strengthMap", "outAlpha">>],
   normalCamera |->
     [RedshiftStandardMaterial |-> <<"bump_input", "out">>,
      RedshiftMaterial |-> <<"bump_input", "out">>,
      RedshiftOpenPBRMaterial |-> <<"bump_input", "out">>,
      RedshiftToonMaterial |-> <<"bump_input", "out">>,
      aiStandardSurface |-> <<"normalCamera", "outNormal">>,
      standardSurface |-> <<"normalCamera", "outNormal">>,
      blinn |-> <<"normalCamera", "outNormal">>,
      phong |-> <<"normalCamera", "outNormal">>,
      lambert |-> <<"normalCamera", "outNormal">>],
   displacementShader |->
     [RedshiftStandardMaterial |-> <<"_displacement_", "outColor">>,
      RedshiftMaterial |-> <<"_displacement_", "outColor">>,
      aiStandardSurface |-> <<"_displacement_", "outColor">>,
      standardSurface |-> <<"_displacement_", "outColor">>],
   subsurfaceColor |->
     [RedshiftStandardMaterial |-> <<"subsurface_color", "outColor">>,
      RedshiftSkin |-> <<"shallow_color", "outColor">>,
      aiStandardSurface |-> <<"subsurfaceColor", "outColor">>,
      standardSurface |-> <<"subsurfaceColor", "outColor">>],
   coatColor |->
     [RedshiftStandardMaterial |-> <<"coat_color", "outColor">>,
      aiStandardSurface |-> <<"coatColor", "outColor">>,
      standardSurface |-> <<"coatColor", "outColor">>],
   coatRoughness |->
     [RedshiftStandardMaterial |-> <<"coat_roughness", "outAlpha">>,
      aiStandardSurface |-> <<"coatRoughness", "outAlpha">>,
      standardSurface |-> <<"coatRoughness", "outAlpha">>],
   base |->
     [RedshiftStandardMaterial |-> <<"diffuse_weight", "outAlpha">>,
      aiStandardSurface |-> <<"base", "outAlpha">>,
      standardSurface |-> <<"base", "outAlpha">>],
   specular |->
     [RedshiftStandardMaterial |-> <<"refl_weight", "outAlpha">>,
      aiStandardSurface |-> <<"specular", "outAlpha">>,
      standardSurface |-> <<"specular", "outAlpha">>],
   emission |->
     [RedshiftStandardMaterial |-> <<"emission_weight", "outAlpha">>,
      aiStandardSurface |-> <<"emission", "outAlpha">>,
      standardSurface |-> <<"emission", "outAlpha">>],
   subsurface |->
     [RedshiftStandardMaterial |-> <<"subsurface_weight", "outAlpha">>,
      aiStandardSurface |-> <<"subsurface", "outAlpha">>,
      standardSurface |-> <<"subsurface", "outAlpha">>],
   coat |->
     [RedshiftStandardMaterial |-> <<"coat_weight", "outAlpha">>,
      aiStandardSurface |-> <<"coat", "outAlpha">>,
      standardSurface |-> <<"coat", "outAlpha">>]
  ]

MASTER_MAP_order ==
  <<"baseColor", "color", "specularRoughness", "eccentricity", "roughness", "metalness",
       "specularColor", "emissionColor", "incandescence", "opacity", "transparency",
       "normalCamera", "displacementShader", "subsurfaceColor", "coatColor", "coatRoughness",
       "base", "specular", "emission", "subsurface", "coat">>

VALUE_MAP ==
  {"baseColor", "color", "specularRoughness", "metalness", "specularColor", "emissionColor",
       "incandescence", "opacity", "base", "specular", "emission", "subsurface", "coat",
       "coatRoughness", "eccentricity"}

\* ------------------------------------------------------------------------
\*  Small helpers
\* ------------------------------------------------------------------------

Range(s) == {s[i] : i \in DOMAIN s}

\* f with key k bound to v (a Python dict assignment d[k] = v)
Put(f, k, v) == [x \in DOMAIN f \cup {k} |-> IF x = k THEN v ELSE f[x]]

\* dict.get(k, dflt) on a dict kept as a sequence of <<key, value>> pairs
RECURSIVE Get(_, _, _)
Get(pairs, k, dflt) ==
  IF pairs = <<>> THEN dflt
  ELSE IF Head(pairs)[1] = k THEN Head(pairs)[2]
  ELSE Get(Tail(pairs), k, dflt)

RECURSIVE SelectSeqBy(_, _)
SelectSeqBy(s, keep) ==
  IF s = <<>> THEN <<>>
  ELSE IF Head(s) \in keep THEN <<Head(s)>> \o SelectSeqBy(Tail(s), keep)
  ELSE SelectSeqBy(Tail(s), keep)

\* "x = v" followed by the statements e, written Let([x \in {v} |-> e]):
\* the value of e for the one x
Let(f) == f[CHOOSE x \in DOMAIN f : TRUE]

\* tbl.get(a, {}).get(b), dflt when either key is missing
Get2(tbl, a, b, dflt) ==
  IF a \in DOMAIN tbl /\ b \in DOMAIN tbl[a] THEN tbl[a][b] ELSE dflt

NoNode == <<>>
NoPlug == <<>>
Val(t, v) == [t |-> t, v |-> v]
NoValue == Val("none", <<>>)
Plug(n, a) == <<n, a>>
LogLine(tag, a, b) == [tag |-> tag, a |-> a, b |-> b]

\* ------------------------------------------------------------------------
\*  The host scene graph behind maya.cmds.  sc is a record
\*    kind    : node -> node type            (DOMAIN = the nodes that exist)
\*    attrs   : node -> set of attribute names
\*    conn    : sequence of [s |-> source plug, d |-> destination plug]
\*    lit     : plug -> literal (the values setAttr wrote / the scene holds)
\*    members : shadingEngine node -> set of member objects
\*    types   : the node types the loaded plugins register (allNodeTypes)
\* ------------------------------------------------------------------------

objExists(sc, n) == n \in DOMAIN sc.kind

nodeType(sc, n) == sc.kind[n]

attributeQuery(sc, a, n) == objExists(sc, n) /\ a \in sc.attrs[n]

plugExists(sc, p) == p # NoPlug /\ attributeQuery(sc, p[2], p[1])

\* cmds.listConnections(node, source=True, destination=False): upstream nodes
listConnections(sc, n) ==
  LET RECURSIVE Up(_)
      Up(cs) == IF cs = <<>> THEN <<>>
                ELSE IF Head(cs).d[1] = n THEN <<Head(cs).s[1]>> \o Up(Tail(cs))
                ELSE Up(Tail(cs))
  IN Up(sc.conn)

\* cmds.listConnections(plug, source=True, destination=False, plugs=True)
listConnectionsPlug(sc, p) ==
  LET RECURSIVE Up(_)
      Up(cs) == IF cs = <<>> THEN <<>>
                ELSE IF Head(cs).d = p THEN <<Head(cs).s>> \o Up(Tail(cs))
                ELSE Up(Tail(cs))
  IN Up(sc.conn)

\* cmds.listConnections(node, type=t): connected nodes of type t, either way
listConnectionsType(sc, n, t) ==
  LET RECURSIVE Nb(_)
      Nb(cs) ==
        IF cs = <<>> THEN <<>>
        ELSE LET c == Head(cs)
                 o == IF c.s[1] = n THEN c.d[1]
                      ELSE IF c.d[1] = n THEN c.s[1] ELSE NoNode
             IN IF o # NoNode /\ objExists(sc, o) /\ sc.kind[o] = t
                THEN <<o>> \o Nb(Tail(cs)) ELSE Nb(Tail(cs))
  IN Nb(sc.conn)

\* cmds.isConnected(src, dst): raises when a plug does not exist
isConnectedRaises(sc, s, d) == ~plugExists(sc, s) \/ ~plugExists(sc, d)
isConnected(sc, s, d) == \E i \in DOMAIN sc.conn : sc.conn[i] = [s |-> s, d |-> d]

\* cmds.connectAttr(src, dst, force=True): raises when a plug does not exist;
\* otherwise the connection replaces whatever drove dst before
connectAttrRaises(sc, s, d) == ~plugExists(sc, s) \/ ~plugExists(sc, d)
connectAttr(sc, s, d) ==
  LET RECURSIVE Drop(_)
      Drop(cs) == IF cs = <<>> THEN <<>>
                  ELSE IF Head(cs).d = d THEN Drop(Tail(cs))
                  ELSE <<Head(cs)>> \o Drop(Tail(cs))
  IN [sc EXCEPT !.conn = Append(Drop(sc.conn), [s |-> s, d |-> d])]

\* cmds.setAttr(plug, value): raises when the plug does not exist or is driven
\* by a connection ("locked or connected and cannot be modified")
setAttrRaises(sc, p) == ~plugExists(sc, p) \/ listConnectionsPlug(sc, p) # <<>>
setAttr(sc, p, v) == [sc EXCEPT !.lit = Put(sc.lit, p, v)]

\* The attributes a node of type k carries when the host creates it: the ones
\* the catalogs name for that type.
RuleAttrs(tbl, k) ==
  UNION { UNION { IF tbl[sk][r].type = k
                  THEN {p[2] : p \in Range(tbl[sk][r].inputs)}
                       \cup {p[2] : p \in Range(tbl[sk][r].outputs)}
                       \cup {p[1] : p \in Range(tbl[sk][r].post_set)}
                  ELSE {}
                  : r \in DOMAIN tbl[sk] }
          : sk \in DOMAIN tbl }

SlotAttrs(slots, k) ==
  { slots[s][k][1] : s \in {x \in DOMAIN slots : k \in DOMAIN slots[x]} }

HostAttrs(k) ==
  CASE k = "shadingEngine" -> {"surfaceShader", "displacementShader"}
    [] k = "MASH_Color"    -> {"texture", "mapType"}
    [] k \in UNION {Range(rm[2]) : rm \in Range(RENDERER_MATERIALS)}
         -> (SlotAttrs(MASTER_MAP, k) \ {"_displacement_"}) \cup {"outColor"}
    [] OTHER -> RuleAttrs(NODE_CONVERSION_TABLE, k)

\* The first free name base_tag, base_tag1, ... (the host renames on a clash)
FreshName(sc, base, tag) ==
  LET k == CHOOSE i \in 0..Cardinality(DOMAIN sc.kind) :
             /\ (base \o <<tag, i>>) \notin DOMAIN sc.kind
             /\ \A j \in 0..(i - 1) : (base \o <<tag, j>>) \in DOMAIN sc.kind
  IN base \o <<tag, k>>

\* cmds.shadingNode / cmds.createNode / cmds.sets(empty=True): a new node
createNode(sc, n, k) ==
  [sc EXCEPT !.kind = Put(sc.kind, n, k),
             !.attrs = Put(sc.attrs, n, HostAttrs(k)),
             !.members = IF k = "shadingEngine" THEN Put(sc.members, n, {})
                         ELSE sc.members]

allNodeTypes(sc) == sc.types

\* the user deletes node n: it leaves the graph with its connections
deleteNode(sc, n) ==
  [sc EXCEPT
     !.kind = [x \in DOMAIN sc.kind \ {n} |-> sc.kind[x]],
     !.attrs = [x \in DOMAIN sc.attrs \ {n} |-> sc.attrs[x]],
     !.conn = LET RECURSIVE Keep(_)
                  Keep(cs) == IF cs = <<>> THEN <<>>
                              ELSE IF Head(cs).s[1] = n \/ Head(cs).d[1] = n
                              THEN Keep(Tail(cs))
                              ELSE <<Head(cs)>> \o Keep(Tail(cs))
              IN Keep(sc.conn),
     !.lit = [p \in {q \in DOMAIN sc.lit : q[1] # n} |-> sc.lit[p]],
     !.members = [x \in DOMAIN sc.members \ {n} |-> sc.members[x]]]

\* ------------------------------------------------------------------------
\*  Helpers of the engine
\* ------------------------------------------------------------------------

get_renderer_from_mat_type(mat_type) ==
  LET RECURSIVE Find(_)
      Find(rms) == IF rms = <<>> THEN "Maya"
                   ELSE IF mat_type \in Range(Head(rms)[2]) THEN Head(rms)[1]
                   ELSE Find(Tail(rms))
  IN Find(RENDERER_MATERIALS)

get_exact_source_plug(sc, shader, attr) ==
  LET conns == listConnectionsPlug(sc, Plug(shader, attr))
  IN IF conns # <<>> THEN conns[1] ELSE NoPlug

\* bound of the model: the nodes one walk of the graph goes into
MaxWalk == 8

\* variant: the visited set is never consulted
never_visited(w, node) == FALSE

\* "if node in visited: return []"
already_visited(w, node) == node \in w.visited

\* walk_upstream_for_file(node, visited): the walk's state is
\* [visited |-> set of nodes, results |-> sequence of file nodes,
\*  walked |-> the nodes the walk went into, in order]
\* (a walk that went into MaxWalk nodes goes no deeper: the interpreter ends
\* a recursion without end with RecursionError)
RECURSIVE walk_upstream(_, _, _)
RECURSIVE walk_upstream_each(_, _, _)
walk_upstream(sc, node, w) ==
  IF already_visited(w, node) THEN w
  ELSE IF Len(w.walked) >= MaxWalk THEN w
  ELSE LET w1 == [w EXCEPT !.visited = w.visited \cup {node},
                           !.walked = Append(w.walked, node)]
       IN IF nodeType(sc, node) = "file"
          THEN [w1 EXCEPT !.results = Append(w1.results, node)]
          ELSE walk_upstream_each(sc, listConnections(sc, node), w1)
walk_upstream_each(sc, ups, w) ==
  IF ups = <<>> THEN w
  ELSE walk_upstream_each(sc, Tail(ups), walk_upstream(sc, Head(ups), w))

\* "if visited is None: visited = set()"
NewWalk == [visited |-> {}, results |-> <<>>, walked |-> <<>>]

walk_upstream_for_file(sc, node) == walk_upstream(sc, node, NewWalk).results

\* ------------------------------------------------------------------------
\*  Smart node chain converter.  The converter's state cx is
\*    [sc |-> scene, cache |-> converted_cache, log |-> log, ret |-> result,
\*     walked |-> the nodes build_converted_node went into (past the cache
\*                test), in order]
\* ------------------------------------------------------------------------

NoRule == [type |-> "", inputs |-> <<>>, outputs |-> <<>>, post_set |-> <<>>]

\* NODE_CONVERSION_TABLE.get(node_type, {}).get(target_renderer)
Conversion(node_type, target_renderer) ==
  Get2(NODE_CONVERSION_TABLE, node_type, target_renderer, NoRule)

_safe_connect(src, dst, cx) ==
  IF ~objExists(cx.sc, src[1])
  THEN [cx EXCEPT !.log = Append(cx.log, LogLine("SKIP-WIRE", src, dst)), !.ret = FALSE]
  ELSE IF ~objExists(cx.sc, dst[1])
  THEN [cx EXCEPT !.log = Append(cx.log, LogLine("SKIP-WIRE", src, dst)), !.ret = FALSE]
  ELSE IF isConnectedRaises(cx.sc, src, dst)
  THEN [cx EXCEPT !.log = Append(cx.log, LogLine("WIRE-FAIL", src, dst)), !.ret = FALSE]
  ELSE IF isConnected(cx.sc, src, dst)
  THEN [cx EXCEPT !.ret = TRUE]
  ELSE IF connectAttrRaises(cx.sc, src, dst)
  THEN [cx EXCEPT !.log = Append(cx.log, LogLine("WIRE-FAIL", src, dst)), !.ret = FALSE]
  ELSE [cx EXCEPT !.sc = connectAttr(cx.sc, src, dst),
                  !.log = Append(cx.log, LogLine("WIRE", src, dst)),
                  !.ret = TRUE]

\* the post_set loop of build_converted_node
RECURSIVE apply_post_set(_, _, _)
apply_post_set(new_node, post, cx) ==
  IF post = <<>> THEN cx
  ELSE LET p == Plug(new_node, Head(post)[1])
           v == Val("int", <<Head(post)[2]>>)
           cx1 == IF setAttrRaises(cx.sc, p)
                  THEN [cx EXCEPT !.log = Append(cx.log, LogLine("WARN", p, v))]
                  ELSE [cx EXCEPT !.sc = setAttr(cx.sc, p, v),
                                  !.log = Append(cx.log, LogLine("SET", p, v))]
       IN apply_post_set(new_node, Tail(post), cx1)

\* converted_cache[src_node] = value
cache_put(cx, src_node, value) ==
  [cx EXCEPT !.cache = Put(cx.cache, src_node, value)]

\* variant: the cache is never consulted
cache_never(cx, src_node) == FALSE

\* "if src_node in converted_cache: return converted_cache[src_node]"
cache_hit(cx, src_node) == src_node \in DOMAIN cx.cache

\* variant: the upstream plug keeps its attribute name
keep_output(sc, up_node, converted_up, up_attr, target_renderer) == up_attr

\* "Remap the output attribute if the upstream node was converted"
remap_output(sc, up_node, converted_up, up_attr, target_renderer) ==
  IF converted_up # up_node
  THEN Get(Conversion(nodeType(sc, up_node), target_renderer).outputs,
           up_attr, up_attr)
  ELSE up_attr

RECURSIVE build_converted_node(_, _, _)
RECURSIVE build_upstream(_, _, _)
RECURSIVE build_inputs(_, _, _, _, _)
RECURSIVE build_input_plugs(_, _, _, _, _)

\* "for up in listConnections(src_node): build_converted_node(up, ...)"
build_upstream(ups, target_renderer, cx) ==
  IF ups = <<>> THEN cx
  ELSE build_upstream(Tail(ups), target_renderer,
                      build_converted_node(Head(ups), target_renderer, cx))

\* variant: a kept node is copied instead of being reused
copy_and_recurse(src_node, target_renderer, cx) ==
  Let([new_node \in {FreshName(cx.sc, src_node, "_RSconv")} |->
    LET cx1 == cache_put([cx EXCEPT !.sc = createNode(cx.sc, new_node,
                                                      nodeType(cx.sc, src_node))],
                         src_node, new_node)
        cx2 == build_upstream(listConnections(cx.sc, src_node), target_renderer, cx1)
    IN [cx2 EXCEPT !.ret = new_node]])

\* keep the node as its own conversion and recurse into its inputs
keep_and_recurse(src_node, target_renderer, cx) ==
  LET cx1 == cache_put(cx, src_node, src_node)
      cx2 == build_upstream(listConnections(cx.sc, src_node), target_renderer, cx1)
  IN [cx2 EXCEPT !.ret = src_node]

\* "for up_plug in upstream_plugs: ..." for one (old_src_attr, new_dst_attr)
build_input_plugs(up_plugs, new_node, new_dst_attr, target_renderer, cx) ==
  IF up_plugs = <<>> THEN cx
  ELSE Let([cx1 \in {build_converted_node(Head(up_plugs)[1], target_renderer, cx)} |->
         
           LET up_node == Head(up_plugs)[1]
               up_attr == Head(up_plugs)[2]
               converted_up == cx1.ret
               up_attr2 == remap_output(cx1.sc, up_node, converted_up, up_attr,
                                        target_renderer)
               cx2 == _safe_connect(Plug(converted_up, up_attr2),
                                    Plug(new_node, new_dst_attr), cx1)
           IN build_input_plugs(Tail(up_plugs), new_node, new_dst_attr,
                                target_renderer, cx2)])

\* "for old_src_attr, new_dst_attr in input_map.items(): ..."
build_inputs(input_map, src_node, new_node, target_renderer, cx) ==
  IF input_map = <<>> THEN cx
  ELSE LET old_src_attr == Head(input_map)[1]
           new_dst_attr == Head(input_map)[2]
           cx1 == IF ~attributeQuery(cx.sc, old_src_attr, src_node) THEN cx
                  ELSE build_input_plugs(
                         listConnectionsPlug(cx.sc, Plug(src_node, old_src_attr)),
                         new_node, new_dst_attr, target_renderer, cx)
       IN build_inputs(Tail(input_map), src_node, new_node, target_renderer, cx1)

build_converted_node(src_node, target_renderer, cx0) ==
  IF cache_hit(cx0, src_node) THEN [cx0 EXCEPT !.ret = cx0.cache[src_node]]
  ELSE IF Len(cx0.walked) >= MaxWalk THEN [cx0 EXCEPT !.ret = src_node]
  ELSE
    Let([cx \in {[cx0 EXCEPT !.walked = Append(cx0.walked, src_node)]} |->
    Let([conversion \in {Conversion(nodeType(cx.sc, src_node), target_renderer)} |->
        LET node_type == nodeType(cx.sc, src_node)
            new_type == conversion.type
        IN IF node_type \in PASSTHROUGH_NODES
           THEN keep_and_recurse(src_node, target_renderer, cx)
           ELSE IF conversion = NoRule
           THEN keep_and_recurse(src_node, target_renderer, cx)
           ELSE IF new_type = node_type
           THEN keep_and_recurse(src_node, target_renderer, cx)
           ELSE IF new_type \notin allNodeTypes(cx.sc)
           THEN [cache_put([cx EXCEPT !.log =
                              Append(cx.log, LogLine("WARN", new_type, node_type))],
                           src_node, src_node)
                   EXCEPT !.ret = src_node]
           ELSE
             Let([new_node \in {FreshName(cx.sc, src_node, "_RSconv")} |->
                 LET cx1 == [cx EXCEPT
                               !.sc = createNode(cx.sc, new_node, new_type),
                               !.log = Append(cx.log,
                                          LogLine("CREATE", src_node, new_node))]
                     cx2 == cache_put(cx1, src_node, new_node)
                     cx3 == apply_post_set(new_node, conversion.post_set, cx2)
                     cx4 == build_inputs(conversion.inputs, src_node, new_node,
                                         target_renderer, cx3)
                 IN [cx4 EXCEPT !.ret = new_node]])])])

\* variant: the chain is converted, the original plug is returned
resolve_output_plug_original(source_plug, target_renderer, cx) ==
  [build_converted_node(source_plug[1], target_renderer, cx)
     EXCEPT !.ret = source_plug]

\* variant: the converted node is returned with the original output name
resolve_output_plug_same_attr(source_plug, target_renderer, cx) ==
  Let([cx1 \in {build_converted_node(source_plug[1], target_renderer, cx)} |->
      [cx1 EXCEPT !.ret = Plug(cx1.ret, source_plug[2])]])

\* resolve_output_plug: the caller has found the plug's node to exist
\* (cmds.nodeType(src_node) on a missing node raises, see do_transfer_entry)
resolve_output_plug(source_plug, target_renderer, cx) ==
  Let([cx1 \in {build_converted_node(source_plug[1], target_renderer, cx)} |->
    
      LET src_node == source_plug[1]
          src_attr == source_plug[2]
          node_type == nodeType(cx.sc, src_node)
          converted == cx1.ret
          out_map == Conversion(node_type, target_renderer).outputs
      IN IF converted = src_node THEN [cx1 EXCEPT !.ret = source_plug]
         ELSE [cx1 EXCEPT !.ret = Plug(converted, Get(out_map, src_attr, src_attr))]])

\* ------------------------------------------------------------------------
\*  Data collection (the planner)
\* ------------------------------------------------------------------------

\* cmds.getAttr(plug): the literal the scene holds; an attribute with no
\* readable literal raises
getAttrRaises(sc, p) == p \notin DOMAIN sc.lit
getAttr(sc, p) == sc.lit[p]

\* (cmds.getAttr(file_node + ".fileTextureName") or "") if file_node else ""
file_path_of(sc, file_node) ==
  IF file_node = NoNode THEN ""
  ELSE IF getAttrRaises(sc, Plug(file_node, "fileTextureName")) THEN ""
  ELSE getAttr(sc, Plug(file_node, "fileTextureName")).v[1]

\* variant: no literal is taken for a default
keep_every_literal(src_attr, val) == FALSE

\* "Skip boring defaults"
boring_default(src_attr, val) ==
  \/ /\ val.t = "color"
     /\ val.v = <<0, 0, 0>>
     /\ src_attr \notin {"baseColor", "color", "specularColor"}
  \/ /\ val.t = "float"
     /\ val.v = <<0>>
     /\ src_attr \in {"emission", "subsurface", "coat"}

\* the entries collect_data appends for one slot of MASTER_MAP
collect_slot(sc, shader, target_mat_type, src_attr) ==
  Let([target_map \in {MASTER_MAP[src_attr]} |->
     IF target_mat_type \notin DOMAIN target_map THEN <<>>
     ELSE IF ~attributeQuery(sc, src_attr, shader) THEN <<>>
     ELSE
       LET tgt_attr == target_map[target_mat_type][1]
           preferred_plug == target_map[target_mat_type][2]
           source_plug == get_exact_source_plug(sc, shader, src_attr)
       IN IF source_plug # NoPlug
          THEN LET source_node == source_plug[1]
                   file_nodes == walk_upstream_for_file(sc, source_node)
                   file_node == IF file_nodes # <<>> THEN file_nodes[1] ELSE NoNode
               IN << [shader |-> shader, shader_attr |-> src_attr,
                      source_plug |-> source_plug, source_node |-> source_node,
                      file_node |-> file_node,
                      file_path |-> file_path_of(sc, file_node),
                      tgt_attr |-> tgt_attr, preferred_plug |-> preferred_plug,
                      target_type |-> target_mat_type,
                      transfer_mode |-> "texture", raw_value |-> NoValue] >>
          ELSE IF src_attr \notin VALUE_MAP THEN <<>>
          ELSE IF getAttrRaises(sc, Plug(shader, src_attr)) THEN <<>>
          ELSE LET val == getAttr(sc, Plug(shader, src_attr))
               IN IF boring_default(src_attr, val) THEN <<>>
                  ELSE << [shader |-> shader, shader_attr |-> src_attr,
                           source_plug |-> NoPlug, source_node |-> NoNode,
                           file_node |-> NoNode, file_path |-> "",
                           tgt_attr |-> tgt_attr, preferred_plug |-> preferred_plug,
                           target_type |-> target_mat_type,
                           transfer_mode |-> "value", raw_value |-> val] >>])

\* variant: the slots are taken last first
collect_data_reversed(sc, shader, target_mat_type) ==
  LET RECURSIVE Slots(_)
      Slots(order) ==
        IF order = <<>> THEN <<>>
        ELSE Slots(Tail(order))
             \o collect_slot(sc, shader, target_mat_type, Head(order))
  IN Slots(MASTER_MAP_order)

collect_data(sc, shader, target_mat_type) ==
  LET RECURSIVE Slots(_)
      Slots(order) ==
        IF order = <<>> THEN <<>>
        ELSE collect_slot(sc, shader, target_mat_type, Head(order))
             \o Slots(Tail(order))
  IN Slots(MASTER_MAP_order)

\* ------------------------------------------------------------------------
\*  Validation
\* ------------------------------------------------------------------------

Issue(level, what, a, b, entry) ==
  [level |-> level, what |-> what, a |-> a, b |-> b, entry |-> entry]

\* variant: the slots already seen are looked up by the source attribute
slot_conflict_by_source(entry, slot_seen) ==
  IF entry.shader_attr \in DOMAIN slot_seen
  THEN << Issue("warn", "conflict", slot_seen[entry.shader_attr].shader_attr,
                entry.shader_attr, entry) >>
  ELSE <<>>

\* "if tgt_attr in slot_seen: warnings.append(... Slot conflict ...)"
slot_conflict(entry, slot_seen) ==
  IF entry.tgt_attr \in DOMAIN slot_seen
  THEN << Issue("warn", "conflict", slot_seen[entry.tgt_attr].shader_attr,
                entry.shader_attr, entry) >>
  ELSE <<>>

\* variant: a sampler without a path is not reported
no_texture_path_unchecked(entry) == <<>>

\* "if entry['file_node'] and not entry['file_path']: warnings.append(...)"
no_texture_path(entry) ==
  IF entry.file_node # NoNode /\ entry.file_path = ""
  THEN << Issue("warn", "no-path", entry.file_node, entry.shader_attr, entry) >>
  ELSE <<>>

\* variant: every destination name is looked up on the target node
missing_attribute_any_slot(sc, entry, target_node, target_mat_type) ==
  IF target_node # NoNode /\ ~attributeQuery(sc, entry.tgt_attr, target_node)
  THEN << Issue("error", "no-attr", entry.tgt_attr, target_node, entry) >>
  ELSE <<>>

\* "if target_mat_type not in ("MASH",) and target_node and not
\* tgt_attr.startswith(...): if not cmds.attributeQuery(...): warnings.append"
\* (no destination name of MASTER_MAP holds a "." outside the MASH ones)
missing_attribute(sc, entry, target_node, target_mat_type) ==
  IF /\ target_mat_type # "MASH"
     /\ target_node # NoNode
     /\ entry.tgt_attr # "_displacement_"
     /\ entry.tgt_attr \notin {"MASH_Color.texture", "MASH_Distribute.strengthMap"}
     /\ ~attributeQuery(sc, entry.tgt_attr, target_node)
  THEN << Issue("error", "no-attr", entry.tgt_attr, target_node, entry) >>
  ELSE <<>>

\* the warnings validate_transfer appends for one entry, given slot_seen
validate_entry(sc, entry, slot_seen, target_node, target_mat_type) ==
  LET tgt_attr == entry.tgt_attr
      target_renderer == get_renderer_from_mat_type(target_mat_type)
      unset == no_texture_path(entry)
      conflict == slot_conflict(entry, slot_seen)
      missing == missing_attribute(sc, entry, target_node, target_mat_type)
      convert == IF entry.source_node = NoNode THEN <<>>
                 ELSE Let([conv \in {Conversion(nodeType(sc, entry.source_node),
                                      target_renderer)} |->
                        
                          IF /\ conv # NoRule
                             /\ conv.type # nodeType(sc, entry.source_node)
                          THEN << Issue("warn", "auto-convert",
                                        nodeType(sc, entry.source_node),
                                        conv.type, entry) >>
                          ELSE <<>>])
  IN unset \o conflict \o missing \o convert

\* cmds.nodeType(entry["source_node"]) on a node deleted since the scan raises
validate_raises(sc, data) ==
  \E i \in DOMAIN data :
     data[i].source_node # NoNode /\ ~objExists(sc, data[i].source_node)

validate_transfer(sc, data, target_node, target_mat_type) ==
  LET RECURSIVE Each(_, _)
      Each(rest, slot_seen) ==
        IF rest = <<>> THEN <<>>
        ELSE validate_entry(sc, Head(rest), slot_seen, target_node, target_mat_type)
             \o Each(Tail(rest), Put(slot_seen, Head(rest).tgt_attr, Head(rest)))
  IN Each(data, <<>>)

\* ------------------------------------------------------------------------
\*  Do transfer (the executor).  The locals of one do_transfer call are
\*    dt = [sc |-> scene, cache |-> converted_cache, log |-> log,
\*          walked |-> the nodes the converter went into,
\*          color_node |-> MASH_Color node or NoNode, raised |-> BOOLEAN]
\*  raised: an exception left do_transfer (a host call outside every try).
\* ------------------------------------------------------------------------

\* tgt_attr.split(".", 1) for the destination names of MASTER_MAP
split_attr(tgt_attr) ==
  CASE tgt_attr = "MASH_Color.texture" -> <<"MASH_Color", "texture">>
    [] tgt_attr = "MASH_Distribute.strengthMap" -> <<"MASH_Distribute", "strengthMap">>
    [] OTHER -> <<tgt_attr>>

dt_log(dt, line) == [dt EXCEPT !.log = Append(dt.log, line)]

\* "Resolve destination plug": [dt |-> locals, dst |-> plug or NoPlug];
\* NoPlug is the loop's "continue"
resolve_dst(dt, entry, target_node, target_mat_type, mash_waiter) ==
  LET tgt_attr == entry.tgt_attr
      parts == split_attr(tgt_attr)
  IN IF target_mat_type = "MASH"
     THEN IF mash_waiter = NoNode \/ ~objExists(dt.sc, mash_waiter)
          THEN [dt |-> dt_log(dt, LogLine("ERROR", "waiter", mash_waiter)),
                dst |-> NoPlug]
          ELSE IF parts[1] = "MASH_Color" /\ Len(parts) = 2
          THEN IF dt.color_node # NoNode
               THEN [dt |-> dt, dst |-> Plug(dt.color_node, parts[2])]
               ELSE LET ex == listConnectionsType(dt.sc, mash_waiter, "MASH_Color")
                    IN IF ex # <<>>
                       THEN [dt |-> [dt EXCEPT !.color_node = ex[1]],
                             dst |-> Plug(ex[1], parts[2])]
                       ELSE IF "MASH_Color" \notin allNodeTypes(dt.sc)
                       THEN [dt |-> [dt EXCEPT !.raised = TRUE], dst |-> NoPlug]
                       ELSE Let([cn \in {FreshName(dt.sc, mash_waiter, "_Color")} |->
                              
                                LET sc1 == createNode(dt.sc, cn, "MASH_Color")
                                    sc2 == setAttr(sc1, Plug(cn, "mapType"),
                                                   Val("int", <<1>>))
                                IN [dt |-> dt_log([dt EXCEPT !.sc = sc2,
                                                             !.color_node = cn],
                                                  LogLine("INFO", "MASH_Color", cn)),
                                    dst |-> Plug(cn, parts[2])]])
          ELSE IF parts[1] = "MASH_Distribute" /\ Len(parts) = 2
          THEN LET dist == listConnectionsType(dt.sc, mash_waiter, "MASH_Distribute")
               IN IF dist = <<>>
                  THEN [dt |-> dt_log(dt, LogLine("SKIP", "no-distribute",
                                                  entry.shader_attr)),
                        dst |-> NoPlug]
                  ELSE IF setAttrRaises(dt.sc, Plug(dist[1], "useStrengthMap"))
                  THEN [dt |-> [dt EXCEPT !.raised = TRUE], dst |-> NoPlug]
                  ELSE [dt |-> [dt EXCEPT !.sc =
                                   setAttr(dt.sc, Plug(dist[1], "useStrengthMap"),
                                           Val("int", <<1>>))],
                        dst |-> Plug(dist[1], parts[2])]
          ELSE [dt |-> dt, dst |-> NoPlug]
     ELSE IF tgt_attr = "_displacement_"
     THEN IF target_node = NoNode \/ ~objExists(dt.sc, target_node)
          THEN [dt |-> [dt EXCEPT !.raised = TRUE], dst |-> NoPlug]
          ELSE LET sgs == listConnectionsType(dt.sc, target_node, "shadingEngine")
               IN IF sgs = <<>>
                  THEN [dt |-> dt_log(dt, LogLine("SKIP", "no-sg", target_node)),
                        dst |-> NoPlug]
                  ELSE [dt |-> dt, dst |-> Plug(sgs[1], "displacementShader")]
     ELSE IF target_node = NoNode \/ ~objExists(dt.sc, target_node)
          THEN [dt |-> dt_log(dt, LogLine("ERROR", "target", target_node)),
                dst |-> NoPlug]
          ELSE [dt |-> dt, dst |-> Plug(target_node, tgt_attr)]

\* variant: a sampler is connected by the output that fed the source slot
file_output_as_wired(entry) == entry.source_plug

\* "Case A: source IS a file node -- use preferred output directly"
file_output(entry) == Plug(entry.source_node, entry.preferred_plug)

\* "Transfer texture": the texture branch of the loop body
transfer_texture(dt, entry, dst_plug, target_renderer) ==
  LET source_plug == entry.source_plug
      source_node == entry.source_node
  IN IF ~objExists(dt.sc, source_node)
     THEN [dt EXCEPT !.raised = TRUE]          \* cmds.nodeType(source_node) raises
     ELSE
       Let([cx \in {IF nodeType(dt.sc, source_node) = "file"
            THEN [sc |-> dt.sc, cache |-> dt.cache, log |-> dt.log,
                  walked |-> dt.walked,
                  ret |-> file_output(entry)]
            ELSE resolve_output_plug(
                   source_plug, target_renderer,
                   [sc |-> dt.sc, cache |-> dt.cache, log |-> dt.log,
                    walked |-> dt.walked, ret |-> NoPlug])} |->
         
           Let([dt1 \in {[dt EXCEPT !.sc = cx.sc, !.cache = cx.cache, !.log = cx.log,
                                    !.walked = cx.walked]} |->
             
               LET final_plug == cx.ret
               IN IF ~objExists(dt1.sc, final_plug[1])
                  THEN dt_log(dt1, LogLine("SKIP", "gone", final_plug[1]))
                  ELSE IF isConnectedRaises(dt1.sc, final_plug, dst_plug)
                  THEN dt_log(dt1, LogLine("FAIL", final_plug, dst_plug))
                  ELSE IF isConnected(dt1.sc, final_plug, dst_plug)
                  THEN dt_log(dt1, LogLine("SKIP", final_plug, dst_plug))
                  ELSE IF connectAttrRaises(dt1.sc, final_plug, dst_plug)
                  THEN dt_log(dt1, LogLine("FAIL", final_plug, dst_plug))
                  ELSE dt_log([dt1 EXCEPT
                                 !.sc = connectAttr(dt1.sc, final_plug, dst_plug)],
                              LogLine("OK-T", final_plug, dst_plug))])])

\* variant: a value entry is logged as transferred, nothing is written
transfer_value_unwritten(dt, entry, dst_plug) ==
  dt_log(dt, LogLine("OK-V", Plug(entry.shader, entry.shader_attr), dst_plug))

\* "Transfer raw value": the value branch of the loop body
transfer_value(dt, entry, dst_plug) ==
  LET val == entry.raw_value
  IN IF setAttrRaises(dt.sc, dst_plug)
     THEN dt_log(dt, LogLine("FAIL", "value", dst_plug))
     ELSE dt_log([dt EXCEPT !.sc = setAttr(dt.sc, dst_plug, val)],
                 LogLine("OK-V", Plug(entry.shader, entry.shader_attr), dst_plug))

\* one iteration of "for entry in data"
do_transfer_entry(dt, entry, target_node, target_mat_type, mash_waiter) ==
  Let([r \in {resolve_dst(dt, entry, target_node, target_mat_type, mash_waiter)} |->
    
      LET target_renderer == get_renderer_from_mat_type(target_mat_type)
      IN IF r.dt.raised \/ r.dst = NoPlug THEN r.dt
         ELSE IF entry.transfer_mode = "texture"
         THEN transfer_texture(r.dt, entry, r.dst, target_renderer)
         ELSE IF entry.transfer_mode = "value"
         THEN transfer_value(r.dt, entry, r.dst)
         ELSE r.dt])

\* [sc |-> scene, ret |-> the new shader or NoNode]
create_target_shader(sc, mat_type, base_name) ==
  IF mat_type = "MASH" THEN [sc |-> sc, ret |-> NoNode]
  ELSE IF mat_type \notin allNodeTypes(sc) THEN [sc |-> sc, ret |-> NoNode]
  ELSE Let([shader \in {FreshName(sc, base_name, "_NF")} |->
       Let([sc1 \in {createNode(sc, shader, mat_type)} |->
       Let([sg \in {FreshName(sc1, shader, "SG")} |->
       Let([sc2 \in {createNode(sc1, sg, "shadingEngine")} |->
         LET s == Plug(shader, "outColor")
             d == Plug(sg, "surfaceShader")
         IN [sc |-> IF connectAttrRaises(sc2, s, d) THEN sc2
                    ELSE connectAttr(sc2, s, d),
             ret |-> shader]])])])])

\* variant: the members are added to new_sg and stay where they were
addElement(sc, ms, new_sg) ==
  [sc EXCEPT !.members = [sg \in DOMAIN sc.members |->
                            IF sg = new_sg THEN sc.members[sg] \cup ms
                            ELSE sc.members[sg]]]

\* cmds.sets(members, e=True, forceElement=new_sg): the members leave every
\* other shading group and join new_sg
forceElement(sc, ms, new_sg) ==
  [sc EXCEPT !.members = [sg \in DOMAIN sc.members |->
                            IF sg = new_sg THEN sc.members[sg] \cup ms
                            ELSE sc.members[sg] \ ms]]

\* "for old_sg in old_sgs: ..." : a is [sc |-> scene, log |-> log, ret |-> total]
RECURSIVE assign_each(_, _, _)
assign_each(sgs, new_sg, a) ==
  IF sgs = <<>> THEN a
  ELSE LET old_sg == Head(sgs)
           ms == a.sc.members[old_sg]
       IN assign_each(Tail(sgs), new_sg,
                      IF ms # {}
                      THEN [sc |-> forceElement(a.sc, ms, new_sg),
                            log |-> Append(a.log, LogLine("ASSIGN", old_sg, new_sg)),
                            ret |-> a.ret + Cardinality(ms)]
                      ELSE a)

\* variant: the old shader is deleted once its consumers are reassigned
assign_and_delete(sc, new_shader, old_shader, log) ==
  LET old_sgs == listConnectionsType(sc, old_shader, "shadingEngine")
      new_sgs == listConnectionsType(sc, new_shader, "shadingEngine")
  IN IF new_sgs = <<>>
     THEN [sc |-> sc, log |-> Append(log, LogLine("SKIP", "no-sg", new_shader)),
           ret |-> 0]
     ELSE Let([a \in {assign_each(old_sgs, new_sgs[1], [sc |-> sc, log |-> log, ret |-> 0])} |->
             [a EXCEPT !.sc = deleteNode(a.sc, old_shader)]])

\* [sc |-> scene, log |-> log, ret |-> total]
assign_shader_to_meshes(sc, new_shader, old_shader, log) ==
  LET old_sgs == listConnectionsType(sc, old_shader, "shadingEngine")
      new_sgs == listConnectionsType(sc, new_shader, "shadingEngine")
  IN IF new_sgs = <<>>
     THEN [sc |-> sc, log |-> Append(log, LogLine("SKIP", "no-sg", new_shader)),
           ret |-> 0]
     ELSE assign_each(old_sgs, new_sgs[1], [sc |-> sc, log |-> log, ret |-> 0])

\* ------------------------------------------------------------------------
\*  The tool (NodeFlowTool) and the scene it runs in
\* ------------------------------------------------------------------------

VARIABLES
  scene,     \* the host scene graph
  ui,        \* the tool's widgets and self._all_data
  run,       \* the position and locals of a running _transfer / do_transfer
  calls,     \* every do_transfer call that ended: arguments, graph before/after, log
  assigned,  \* the last assign_shader_to_meshes call: arguments, members before/after
  dialog,    \* the issues the last validate_transfer returned
  last       \* the handler or step taken last

vars == <<scene, ui, run, calls, assigned, dialog, last>>

\* bounds of the model
MaxRuns == 2        \* _transfer runs the caller accepts
MaxDeletes == 1     \* nodes the user deletes from the scene

SUPPORTED_SOURCES ==
  {"aiStandardSurface", "standardSurface", "lambert", "blinn", "phong", "phongE",
   "RedshiftStandardMaterial", "RedshiftMaterial"}

RENDERER_OPTIONS == <<"Redshift", "Arnold", "Maya", "MASH">>

\* the nodes, connections and literals of a scene, without the order of conn
Graph(sc) == [kind |-> sc.kind, attrs |-> sc.attrs, conn |-> Range(sc.conn),
              lit |-> sc.lit]

get_available_materials(sc, renderer) ==
  LET mats == Get(RENDERER_MATERIALS, renderer, <<>>)
      available == SelectSeqBy(mats, allNodeTypes(sc) \cup {"MASH"})
  IN IF available # <<>> THEN available ELSE mats

\* [shaders |-> sequence, err |-> BOOLEAN]; the objects the fields name are
\* shading nodes (a mesh name in the field is outside the model)
_get_source_shaders(sc, u) ==
  IF u.mode = "single"
  THEN IF u.src_field = NoNode \/ ~objExists(sc, u.src_field)
       THEN [shaders |-> <<>>, err |-> TRUE]
       ELSE IF nodeType(sc, u.src_field) \in SUPPORTED_SOURCES
       THEN [shaders |-> <<u.src_field>>, err |-> FALSE]
       ELSE [shaders |-> <<>>, err |-> TRUE]
  ELSE IF u.shader_list # <<>>
       THEN [shaders |-> u.shader_list, err |-> FALSE]
       ELSE [shaders |-> <<>>, err |-> TRUE]

IdleRun ==
  [pc |-> "idle", queue |-> <<>>, shader |-> NoNode, entries |-> <<>>, i |-> 0,
   target_node |-> NoNode, target_mat |-> "", mash_waiter |-> NoNode,
   tgt_input |-> NoNode, before |-> <<>>,
   cache |-> <<>>, log |-> <<>>, walked |-> <<>>, color_node |-> NoNode,
   total_ok |-> 0, total_fail |-> 0, total_assigned |-> 0]

NoAssign == [done |-> FALSE]

\* the shaders of data in order of first appearance (data_by_shader's keys)
RECURSIVE shader_keys(_, _)
shader_keys(data, seen) ==
  IF data = <<>> THEN <<>>
  ELSE IF Head(data).shader \in seen THEN shader_keys(Tail(data), seen)
  ELSE <<Head(data).shader>> \o shader_keys(Tail(data), seen \cup {Head(data).shader})

RECURSIVE entries_of(_, _)
entries_of(data, shader) ==
  IF data = <<>> THEN <<>>
  ELSE IF Head(data).shader = shader
  THEN <<Head(data)>> \o entries_of(Tail(data), shader)
  ELSE entries_of(Tail(data), shader)

\* sum(1 for l in log_lines if l.startswith(prefix))
RECURSIVE count_tags(_, _)
count_tags(log, tags) ==
  IF log = <<>> THEN 0
  ELSE (IF Head(log).tag \in tags THEN 1 ELSE 0) + count_tags(Tail(log), tags)

\* ------------------------------------------------------------------------
\*  Handlers
\* ------------------------------------------------------------------------

\* _on_renderer_changed: the material combo is refilled, its first item current
_on_renderer_changed(value) ==
  /\ run.pc = "idle"
  /\ value # ui.renderer
  /\ ui' = [ui EXCEPT !.renderer = value,
                      !.material = get_available_materials(scene, value)[1]]
  /\ last' = "renderer"
  /\ UNCHANGED <<scene, run, calls, assigned, dialog>>

\* the loop of _scan: [data |-> entries so far, raised |-> BOOLEAN]
\* (cmds.attributeQuery on a shader that no longer exists raises)
RECURSIVE scan_shaders(_, _, _)
scan_shaders(sc, shaders, target_mat) ==
  IF shaders = <<>> THEN [data |-> <<>>, raised |-> FALSE]
  ELSE IF ~objExists(sc, Head(shaders)) THEN [data |-> <<>>, raised |-> TRUE]
  ELSE LET rest == scan_shaders(sc, Tail(shaders), target_mat)
       IN [data |-> collect_data(sc, Head(shaders), target_mat) \o rest.data,
           raised |-> rest.raised]

_scan ==
  /\ run.pc = "idle"
  /\ \E g \in {_get_source_shaders(scene, ui)} :
       \E s \in {scan_shaders(scene, g.shaders, ui.material)} :
         ui' = IF g.err THEN ui
               ELSE IF s.raised THEN [ui EXCEPT !.all_data = s.data]
               ELSE [ui EXCEPT !.all_data = s.data,
                               !.transfer_enabled = (s.data # <<>>)]
  /\ last' = "scan"
  /\ UNCHANGED <<scene, run, calls, assigned, dialog>>

\* variant: the target shader is created before the plan is validated
_transfer_prologue_eager(sc, u) ==
  LET g == _get_source_shaders(sc, u)
      tgt_val == IF u.tgt_field # NoNode /\ objExists(sc, u.tgt_field)
                 THEN u.tgt_field ELSE NoNode
      made == IF tgt_val # NoNode THEN sc
              ELSE create_target_shader(sc, u.material, u.src_field).sc
  IN IF g.err
     THEN [sc |-> made, err |-> TRUE, raised |-> FALSE, warnings |-> <<>>]
     ELSE IF validate_raises(sc, u.all_data)
     THEN [sc |-> made, err |-> FALSE, raised |-> TRUE, warnings |-> <<>>]
     ELSE [sc |-> made, err |-> FALSE, raised |-> FALSE,
           warnings |-> validate_transfer(sc, u.all_data, tgt_val, u.material)]

\* _transfer up to the warning dialog (lines 1543-1555):
\* [sc |-> scene, err, raised |-> BOOLEAN, warnings |-> issues]
_transfer_prologue(sc, u) ==
  LET g == _get_source_shaders(sc, u)
      tgt_val == IF u.tgt_field # NoNode /\ objExists(sc, u.tgt_field)
                 THEN u.tgt_field ELSE NoNode
  IN IF g.err
     THEN [sc |-> sc, err |-> TRUE, raised |-> FALSE, warnings |-> <<>>]
     ELSE IF validate_raises(sc, u.all_data)
     THEN [sc |-> sc, err |-> FALSE, raised |-> TRUE, warnings |-> <<>>]
     ELSE [sc |-> sc, err |-> FALSE, raised |-> FALSE,
           warnings |-> validate_transfer(sc, u.all_data, tgt_val, u.material)]

TransferClicked == run.pc = "idle" /\ ui.transfer_enabled /\ ui.runs < MaxRuns

\* _get_source_shaders reports an error: the handler returns
_transfer_error ==
  /\ TransferClicked
  /\ \E p \in {_transfer_prologue(scene, ui)} :
        /\ p.err
        /\ scene' = p.sc
  /\ last' = "transfer-error"
  /\ UNCHANGED <<ui, run, calls, assigned, dialog>>

\* validate_transfer raises: the handler is left by the exception
_transfer_validate_raises ==
  /\ TransferClicked
  /\ \E p \in {_transfer_prologue(scene, ui)} :
        /\ p.raised
        /\ scene' = p.sc
  /\ last' = "validate-raised"
  /\ UNCHANGED <<ui, run, calls, assigned, dialog>>

\* the caller rejects the warning dialog: "[CANCELLED]"
_transfer_rejected ==
  /\ TransferClicked
  /\ \E p \in {_transfer_prologue(scene, ui)} :
        /\ ~p.err /\ ~p.raised /\ p.warnings # <<>>
        /\ scene' = p.sc
        /\ dialog' = p.warnings
  /\ last' = "cancelled"
  /\ UNCHANGED <<ui, run, calls, assigned>>

\* no warning, or the caller accepts the dialog: the per-shader loop starts
_transfer_accepted ==
  /\ TransferClicked
  /\ \E p \in {_transfer_prologue(scene, ui)} :
        /\ ~p.err /\ ~p.raised
        /\ scene' = p.sc
        /\ dialog' = p.warnings
  /\ run' = [IdleRun EXCEPT
               !.pc = "shaders",
               !.queue = shader_keys(ui.all_data, {}),
               !.target_mat = ui.material,
               !.tgt_input = ui.tgt_field,
               !.mash_waiter = IF ui.renderer = "MASH" THEN ui.mash_field ELSE NoNode]
  /\ ui' = [ui EXCEPT !.runs = ui.runs + 1]
  /\ last' = "accepted"
  /\ UNCHANGED <<calls, assigned>>

\* the head of "for shader, entries in data_by_shader.items()":
\* [sc |-> scene, ret |-> target node or NoNode, ok |-> BOOLEAN]
transfer_target(sc, r, shader) ==
  IF r.target_mat = "MASH" THEN [sc |-> sc, ret |-> NoNode, ok |-> TRUE]
  ELSE IF r.tgt_input # NoNode /\ objExists(sc, r.tgt_input)
  THEN [sc |-> sc, ret |-> r.tgt_input, ok |-> TRUE]
  ELSE Let([c \in {create_target_shader(sc, r.target_mat, shader)} |->
         [sc |-> c.sc, ret |-> c.ret, ok |-> c.ret # NoNode]])

\* next shader: its target is found or created and do_transfer is entered
_transfer_shader ==
  /\ run.pc = "shaders" /\ run.queue # <<>>
  /\ \E shader \in {Head(run.queue)} :
      \E t \in {transfer_target(scene, run, shader)} :
        /\ t.ok
        /\ scene' = t.sc
        /\ run' = [run EXCEPT !.pc = "entries", !.shader = shader,
                              !.entries = entries_of(ui.all_data, shader),
                              !.i = 1, !.target_node = t.ret,
                              !.before = Graph(t.sc),
                              !.cache = <<>>, !.log = <<>>, !.walked = <<>>,
                              !.color_node = NoNode]
  /\ last' = "do_transfer"
  /\ UNCHANGED <<ui, calls, assigned, dialog>>

\* "[ERROR] Could not create ..." : continue with the next shader
_transfer_shader_skipped ==
  /\ run.pc = "shaders" /\ run.queue # <<>>
  /\ \E t \in {transfer_target(scene, run, Head(run.queue))} :
        /\ ~t.ok
        /\ scene' = t.sc
  /\ run' = [run EXCEPT !.queue = Tail(run.queue)]
  /\ last' = "create-failed"
  /\ UNCHANGED <<ui, calls, assigned, dialog>>

\* the locals of the running do_transfer
Locals == [sc |-> scene, cache |-> run.cache, log |-> run.log,
           walked |-> run.walked,
           color_node |-> run.color_node, raised |-> FALSE]

StepResult ==
  do_transfer_entry(Locals, run.entries[run.i], run.target_node, run.target_mat,
                    run.mash_waiter)

\* (run: the number of the _transfer run that made the call)
CallRecord(dt, raised) ==
  [shader |-> run.shader, data |-> run.entries, target_node |-> run.target_node,
   target_mat |-> run.target_mat, mash_waiter |-> run.mash_waiter,
   before |-> run.before, after |-> Graph(dt.sc), log |-> dt.log,
   cache |-> dt.cache, walked |-> dt.walked, raised |-> raised,
   run |-> ui.runs]

\* one iteration of do_transfer's loop
do_transfer_step ==
  /\ run.pc = "entries" /\ run.i <= Len(run.entries)
  /\ \E dt \in {StepResult} :
        /\ ~dt.raised
        /\ scene' = dt.sc
        /\ run' = [run EXCEPT !.i = run.i + 1, !.cache = dt.cache, !.log = dt.log,
                              !.walked = dt.walked,
                              !.color_node = dt.color_node]
  /\ last' = "entry"
  /\ UNCHANGED <<ui, calls, assigned, dialog>>

\* a host call outside every try raises: the exception leaves do_transfer and
\* _transfer; what was written so far stays
do_transfer_raises ==
  /\ run.pc = "entries" /\ run.i <= Len(run.entries)
  /\ \E dt \in {StepResult} :
        /\ dt.raised
        /\ scene' = dt.sc
        /\ calls' = Append(calls, CallRecord(dt, TRUE))
  /\ run' = IdleRun
  /\ last' = "raised"
  /\ UNCHANGED <<ui, assigned, dialog>>

\* do_transfer returns its log; _transfer counts it and reassigns the consumers
do_transfer_returns ==
  /\ run.pc = "entries" /\ run.i > Len(run.entries)
  /\ \E doAssign \in {run.target_node # NoNode /\ run.target_mat # "MASH"} :
      \E a \in {IF doAssign
                 THEN assign_shader_to_meshes(scene, run.target_node, run.shader,
                                              run.log)
                 ELSE [sc |-> scene, log |-> run.log, ret |-> 0]} :
        /\ calls' = Append(calls, CallRecord(Locals, FALSE))
        /\ scene' = IF doAssign THEN a.sc ELSE scene
        /\ assigned' = IF doAssign
                       THEN [done |-> TRUE, new_shader |-> run.target_node,
                             old_shader |-> run.shader,
                             old_sgs |-> listConnectionsType(
                                           scene, run.shader, "shadingEngine"),
                             new_sgs |-> listConnectionsType(
                                           scene, run.target_node, "shadingEngine"),
                             before |-> scene.members, after |-> a.sc.members,
                             ret |-> a.ret, log |-> a.log]
                       ELSE assigned
        /\ run' = [run EXCEPT
                     !.pc = "shaders", !.queue = Tail(run.queue),
                     !.total_ok = run.total_ok + count_tags(run.log, {"OK-T", "OK-V"}),
                     !.total_fail = run.total_fail + count_tags(run.log, {"FAIL"}),
                     !.total_assigned = run.total_assigned
                                        + (IF doAssign THEN a.ret ELSE 0)]
  /\ last' = "returned"
  /\ UNCHANGED <<ui, dialog>>

\* "[DONE]": the handler returns
_transfer_done ==
  /\ run.pc = "shaders" /\ run.queue = <<>>
  /\ run' = IdleRun
  /\ last' = "done"
  /\ UNCHANGED <<scene, ui, calls, assigned, dialog>>

\* the user deletes a node while the tool is idle
delete_node(n) ==
  /\ run.pc = "idle"
  /\ ui.deletes < MaxDeletes
  /\ objExists(scene, n)
  /\ scene' = deleteNode(scene, n)
  /\ ui' = [ui EXCEPT !.deletes = ui.deletes + 1]
  /\ last' = "delete"
  /\ UNCHANGED <<run, calls, assigned, dialog>>

\* ------------------------------------------------------------------------
\*  The scenes the tool is started in
\* ------------------------------------------------------------------------

M1 == <<"M1">>
M2 == <<"M2">>
SG1 == <<"SG1">>
SG2 == <<"SG2">>
F1 == <<"F1">>
F2 == <<"F2">>
B1 == <<"B1">>
CC0 == <<"CC0">>
CCa == <<"CCa">>
CCb == <<"CCb">>
CCx == <<"CCx">>
P1 == <<"P1">>
P2 == <<"P2">>
PL == <<"PL">>
T1 == <<"T1">>
T0 == <<"T0">>
TS == <<"TS">>
TSG == <<"TSG">>
W1 == <<"W1">>
D1 == <<"D1">>
X1 == <<"X1">>
R1 == <<"R1">>
N1 == <<"N1">>

C(sn, sa, dn, da) == [s |-> Plug(sn, sa), d |-> Plug(dn, da)]

\* nodes: <<name, type, attributes>>; lits: <<plug, literal>>;
\* members: <<shading group, member objects>>
MkScene(nodes, conn, lits, members, types) ==
  [kind |-> [n \in {x[1] : x \in Range(nodes)} |->
               (CHOOSE x \in Range(nodes) : x[1] = n)[2]],
   attrs |-> [n \in {x[1] : x \in Range(nodes)} |->
               (CHOOSE x \in Range(nodes) : x[1] = n)[3]],
   conn |-> conn,
   lit |-> [p \in {x[1] : x \in Range(lits)} |->
               (CHOOSE x \in Range(lits) : x[1] = p)[2]],
   members |-> [g \in {x[1] : x \in Range(members)} |->
               (CHOOSE x \in Range(members) : x[1] = g)[2]],
   types |-> types]

AllMaterials == UNION {Range(rm[2]) : rm \in Range(RENDERER_MATERIALS)}

RuleTypes ==
  UNION { {NODE_CONVERSION_TABLE[k][r].type : r \in DOMAIN NODE_CONVERSION_TABLE[k]}
          : k \in DOMAIN NODE_CONVERSION_TABLE }

\* every plugin loaded
AllTypes ==
  DOMAIN NODE_CONVERSION_TABLE \cup RuleTypes \cup PASSTHROUGH_NODES
  \cup (AllMaterials \ {"MASH"})
  \cup {"shadingEngine", "MASH_Waiter", "MASH_Distribute", "MASH_Color", "expression"}

\* the Redshift plugin not loaded
IsRedshiftType(t) ==
  t \in Range(Get(RENDERER_MATERIALS, "Redshift", <<>>))
       \cup {"RedshiftBumpMap", "rsColorCorrect", "rsRange", "rsColorLayer"}
NoRedshiftTypes == {t \in AllTypes : ~IsRedshiftType(t)}

\* the Redshift plugin loaded without its bump node
NoBumpTypes == AllTypes \ {"RedshiftBumpMap"}

FileAttrs == {"outColor", "outAlpha", "fileTextureName", "uvCoord"}
SGAttrs == {"surfaceShader", "displacementShader", "rsSurfaceShader"}
CCAttrs == {"input", "outColor"}
Path(s) == Val("string", <<s>>)
Float(x) == Val("float", <<x>>)
Color(r, g, b) == Val("color", <<r, g, b>>)

Setup(sc, mode, src_field, shader_list, tgt_fields, mash_field, renderers, deletable) ==
  [sc |-> sc, mode |-> mode, src_field |-> src_field, shader_list |-> shader_list,
   tgt_fields |-> tgt_fields, mash_field |-> mash_field, renderers |-> renderers,
   deletable |-> deletable]

\* a file sampler on base colour, a literal roughness; targets with their own
\* shading group (T1), with none (T0), and sharing the source's group (TS)
SceneA ==
  MkScene(
    << <<M1, "aiStandardSurface", {"baseColor", "specularRoughness", "outColor"}>>,
       <<SG1, "shadingEngine", SGAttrs>>,
       <<F1, "file", FileAttrs>>,
       <<T1, "RedshiftStandardMaterial", HostAttrs("RedshiftStandardMaterial")>>,
       <<TSG, "shadingEngine", SGAttrs>>,
       <<T0, "RedshiftStandardMaterial", HostAttrs("RedshiftStandardMaterial")>>,
       <<TS, "RedshiftStandardMaterial", HostAttrs("RedshiftStandardMaterial")>> >>,
    << C(F1, "outColor", M1, "baseColor"),
       C(M1, "outColor", SG1, "surfaceShader"),
       C(T1, "outColor", TSG, "surfaceShader"),
       C(TS, "outColor", SG1, "rsSurfaceShader") >>,
    << <<Plug(M1, "specularRoughness"), Float(35)>>,
       <<Plug(F1, "fileTextureName"), Path("wood.png")>> >>,
    << <<SG1, {"meshA", "meshB"}>>, <<TSG, {"meshC"}>> >>,
    AllTypes)

\* a height-bump utility between the sampler and the normal slot
SceneB(types) ==
  MkScene(
    << <<M1, "aiStandardSurface", {"normalCamera", "outColor"}>>,
       <<SG1, "shadingEngine", SGAttrs>>,
       <<F1, "file", FileAttrs>>,
       <<B1, "bump2d", {"bumpValue", "outNormal", "bumpInterp"}>>,
       <<T1, "RedshiftStandardMaterial", HostAttrs("RedshiftStandardMaterial")>>,
       <<TSG, "shadingEngine", SGAttrs>> >>,
    << C(F1, "outAlpha", B1, "bumpValue"),
       C(B1, "outNormal", M1, "normalCamera"),
       C(M1, "outColor", SG1, "surfaceShader"),
       C(T1, "outColor", TSG, "surfaceShader") >>,
    << <<Plug(F1, "fileTextureName"), Path("bump.png")>> >>,
    << <<SG1, {"meshA"}>>, <<TSG, {}>> >>,
    types)

\* fan-in: CC0 feeds CCa and CCb and a slot of its own
SceneC ==
  MkScene(
    << <<M1, "aiStandardSurface",
         {"baseColor", "specularColor", "emissionColor", "outColor"}>>,
       <<SG1, "shadingEngine", SGAttrs>>,
       <<F1, "file", FileAttrs>>,
       <<CC0, "aiColorCorrect", CCAttrs>>,
       <<CCa, "aiColorCorrect", CCAttrs>>,
       <<CCb, "aiColorCorrect", CCAttrs>>,
       <<T1, "RedshiftStandardMaterial", HostAttrs("RedshiftStandardMaterial")>>,
       <<TSG, "shadingEngine", SGAttrs>> >>,
    << C(F1, "outColor", CC0, "input"),
       C(CC0, "outColor", CCa, "input"),
       C(CC0, "outColor", CCb, "input"),
       C(CCa, "outColor", M1, "baseColor"),
       C(CCb, "outColor", M1, "specularColor"),
       C(CC0, "outColor", M1, "emissionColor"),
       C(M1, "outColor", SG1, "surfaceShader"),
       C(T1, "outColor", TSG, "surfaceShader") >>,
    << <<Plug(F1, "fileTextureName"), Path("")>> >>,
    << <<SG1, {"meshA"}>>, <<TSG, {}>> >>,
    AllTypes)

\* a chain of passthrough nodes only (base colour), and a passthrough node
\* with a convertible node behind it (specular colour)
SceneD ==
  MkScene(
    << <<M1, "aiStandardSurface", {"baseColor", "specularColor", "outColor"}>>,
       <<SG1, "shadingEngine", SGAttrs>>,
       <<PL, "place2dTexture", {"outUV"}>>,
       <<F1, "file", FileAttrs>>,
       <<P1, "colorCorrect", {"inColor", "outColor"}>>,
       <<F2, "file", FileAttrs>>,
       <<CCx, "aiColorCorrect", CCAttrs>>,
       <<P2, "colorCorrect", {"inColor", "outColor"}>>,
       <<T1, "RedshiftStandardMaterial", HostAttrs("RedshiftStandardMaterial")>>,
       <<TSG, "shadingEngine", SGAttrs>> >>,
    << C(PL, "outUV", F1, "uvCoord"),
       C(F1, "outColor", P1, "inColor"),
       C(P1, "outColor", M1, "baseColor"),
       C(F2, "outColor", CCx, "input"),
       C(CCx, "outColor", P2, "inColor"),
       C(P2, "outColor", M1, "specularColor"),
       C(M1, "outColor", SG1, "surfaceShader"),
       C(T1, "outColor", TSG, "surfaceShader") >>,
    << <<Plug(F1, "fileTextureName"), Path("a.png")>>,
       <<Plug(F2, "fileTextureName"), Path("b.png")>> >>,
    << <<SG1, {"meshA"}>>, <<TSG, {}>> >>,
    AllTypes)

\* two slots of the source with one destination attribute (base_color);
\* m1, m2: whether each is driven by a sampler or holds a literal
SceneE(m1, m2) ==
  MkScene(
    << <<M1, "lambert", {"baseColor", "color", "outColor"}>>,
       <<SG1, "shadingEngine", SGAttrs>>,
       <<F1, "file", FileAttrs>>,
       <<F2, "file", FileAttrs>>,
       <<T1, "RedshiftStandardMaterial", HostAttrs("RedshiftStandardMaterial")>>,
       <<TSG, "shadingEngine", SGAttrs>> >>,
    (IF m1 = "texture" THEN << C(F1, "outColor", M1, "baseColor") >> ELSE <<>>)
    \o (IF m2 = "texture" THEN << C(F2, "outColor", M1, "color") >> ELSE <<>>)
    \o << C(M1, "outColor", SG1, "surfaceShader"),
          C(T1, "outColor", TSG, "surfaceShader") >>,
    << <<Plug(M1, "baseColor"), Color(50, 50, 50)>>,
       <<Plug(M1, "color"), Color(20, 20, 20)>>,
       <<Plug(F1, "fileTextureName"), Path("a.png")>>,
       <<Plug(F2, "fileTextureName"), Path("b.png")>> >>,
    << <<SG1, {"meshA"}>>, <<TSG, {}>> >>,
    AllTypes)

\* a MASH network as the target; driven: useStrengthMap of the distribute
\* node is driven by a connection
SceneF(driven) ==
  MkScene(
    << <<M1, "aiStandardSurface",
         {"baseColor", "emissionColor", "specularRoughness", "metalness", "outColor"}>>,
       <<SG1, "shadingEngine", SGAttrs>>,
       <<F1, "file", FileAttrs>>,
       <<F2, "file", FileAttrs>>,
       <<W1, "MASH_Waiter", {"inputPoints"}>>,
       <<D1, "MASH_Distribute", {"outputPoints", "strengthMap", "useStrengthMap"}>>,
       <<X1, "expression", {"output"}>> >>,
    << C(F1, "outColor", M1, "baseColor"),
       C(F2, "outAlpha", M1, "specularRoughness"),
       C(M1, "outColor", SG1, "surfaceShader"),
       C(D1, "outputPoints", W1, "inputPoints") >>
    \o (IF driven THEN << C(X1, "output", D1, "useStrengthMap") >> ELSE <<>>),
    << <<Plug(M1, "emissionColor"), Color(100, 100, 100)>>,
       <<Plug(M1, "metalness"), Float(0)>>,
       <<Plug(F1, "fileTextureName"), Path("a.png")>>,
       <<Plug(F2, "fileTextureName"), Path("b.png")>> >>,
    << <<SG1, {"meshA"}>> >>,
    AllTypes)

\* two source materials in the shader list
SceneG ==
  MkScene(
    << <<M1, "aiStandardSurface", {"baseColor", "outColor"}>>,
       <<SG1, "shadingEngine", SGAttrs>>,
       <<M2, "lambert", {"color", "outColor"}>>,
       <<SG2, "shadingEngine", SGAttrs>>,
       <<F1, "file", FileAttrs>>,
       <<T1, "RedshiftStandardMaterial", HostAttrs("RedshiftStandardMaterial")>>,
       <<TSG, "shadingEngine", SGAttrs>> >>,
    << C(F1, "outColor", M1, "baseColor"),
       C(M1, "outColor", SG1, "surfaceShader"),
       C(M2, "outColor", SG2, "surfaceShader"),
       C(T1, "outColor", TSG, "surfaceShader") >>,
    << <<Plug(M2, "color"), Color(20, 20, 20)>>,
       <<Plug(F1, "fileTextureName"), Path("a.png")>> >>,
    << <<SG1, {"meshA"}>>, <<SG2, {"meshB"}>>, <<TSG, {}>> >>,
    AllTypes)

\* weights and colours held as literals: emission and subsurface hold w, coat
\* holds 30 - w (hundredths); black base and emission colours; base weight
\* driven by a sampler; coatColor is a slot without a literal transfer
SceneH(w) ==
  MkScene(
    << <<M1, "aiStandardSurface",
         {"baseColor", "emissionColor", "coatColor", "base", "emission",
          "subsurface", "coat", "outColor"}>>,
       <<SG1, "shadingEngine", SGAttrs>>,
       <<F1, "file", FileAttrs>>,
       <<T1, "RedshiftStandardMaterial", HostAttrs("RedshiftStandardMaterial")>>,
       <<TSG, "shadingEngine", SGAttrs>> >>,
    << C(F1, "outAlpha", M1, "base"),
       C(M1, "outColor", SG1, "surfaceShader"),
       C(T1, "outColor", TSG, "surfaceShader") >>,
    << <<Plug(M1, "baseColor"), Color(0, 0, 0)>>,
       <<Plug(M1, "emissionColor"), Color(0, 0, 0)>>,
       <<Plug(M1, "coatColor"), Color(10, 10, 10)>>,
       <<Plug(M1, "emission"), Float(w)>>,
       <<Plug(M1, "subsurface"), Float(w)>>,
       <<Plug(M1, "coat"), Float(30 - w)>>,
       <<Plug(F1, "fileTextureName"), Path("mask.png")>> >>,
    << <<SG1, {"meshA"}>>, <<TSG, {}>> >>,
    AllTypes)

\* one slot driven by a sampler that has no path
SceneI(slot, out) ==
  MkScene(
    << <<M1, "aiStandardSurface", {slot, "outColor"}>>,
       <<SG1, "shadingEngine", SGAttrs>>,
       <<F1, "file", FileAttrs>>,
       <<T1, "RedshiftStandardMaterial", HostAttrs("RedshiftStandardMaterial")>>,
       <<TSG, "shadingEngine", SGAttrs>> >>,
    << C(F1, out, M1, slot),
       C(M1, "outColor", SG1, "surfaceShader"),
       C(T1, "outColor", TSG, "surfaceShader") >>,
    << <<Plug(F1, "fileTextureName"), Path("")>> >>,
    << <<SG1, {"meshA"}>>, <<TSG, {}>> >>,
    AllTypes)

\* a convertible node (aiRange) feeding a convertible node (aiNormalMap)
SceneJ(types) ==
  MkScene(
    << <<M1, "aiStandardSurface", {"normalCamera", "outColor"}>>,
       <<SG1, "shadingEngine", SGAttrs>>,
       <<F1, "file", FileAttrs>>,
       <<R1, "aiRange", CCAttrs>>,
       <<N1, "aiNormalMap", {"input", "outValue"}>> >>,
    << C(F1, "outColor", R1, "input"),
       C(R1, "outColor", N1, "input"),
       C(N1, "outValue", M1, "normalCamera"),
       C(M1, "outColor", SG1, "surfaceShader") >>,
    << <<Plug(F1, "fileTextureName"), Path("a.png")>> >>,
    << <<SG1, {"meshA"}>> >>,
    types)

\* connections that close a cycle: R1 and X1 (both with a rule) drive each
\* other, and so do P1 (a kind without a rule) and P2 (a passthrough kind);
\* X1 is also read through an output (outColorR) that no rule renames
SceneK ==
  MkScene(
    << <<M1, "aiStandardSurface",
         {"baseColor", "metalness", "specularColor", "outColor"}>>,
       <<SG1, "shadingEngine", SGAttrs>>,
       <<F1, "file", FileAttrs>>,
       <<R1, "aiRange", CCAttrs>>,
       <<X1, "aiMultiply", {"input1", "input2", "outColor", "outColorR"}>>,
       <<P1, "rsColorLayer", {"input1", "outColor"}>>,
       <<P2, "colorCorrect", {"inColor", "outColor"}>> >>,
    << C(X1, "outColor", R1, "input"),
       C(R1, "outColor", X1, "input1"),
       C(F1, "outColor", X1, "input2"),
       C(R1, "outColor", M1, "baseColor"),
       C(X1, "outColorR", M1, "metalness"),
       C(P2, "outColor", P1, "input1"),
       C(P1, "outColor", P2, "inColor"),
       C(P1, "outColor", M1, "specularColor"),
       C(M1, "outColor", SG1, "surfaceShader") >>,
    << <<Plug(F1, "fileTextureName"), Path("a.png")>> >>,
    << <<SG1, {"meshA"}>> >>,
    AllTypes)

\* a destination node of another kind than the one planned for (T1 is a
\* RedshiftMaterial): it exposes the destination of the specular colour, not
\* that of the base colour; the displacement slot goes to the shading group;
\* the specular colour is fed by the sampler's alpha output
SceneL ==
  MkScene(
    << <<M1, "aiStandardSurface",
         {"baseColor", "specularColor", "displacementShader", "outColor"}>>,
       <<SG1, "shadingEngine", SGAttrs>>,
       <<F1, "file", FileAttrs>>,
       <<T1, "RedshiftMaterial", HostAttrs("RedshiftMaterial")>>,
       <<TSG, "shadingEngine", SGAttrs>> >>,
    << C(F1, "outColor", M1, "baseColor"),
       C(F1, "outAlpha", M1, "specularColor"),
       C(F1, "outColor", M1, "displacementShader"),
       C(M1, "outColor", SG1, "surfaceShader"),
       C(T1, "outColor", TSG, "surfaceShader") >>,
    << <<Plug(F1, "fileTextureName"), Path("a.png")>> >>,
    << <<SG1, {"meshA"}>>, <<TSG, {}>> >>,
    AllTypes)

\* two source materials in the shader list and a MASH network as the target
SceneM ==
  MkScene(
    << <<M1, "aiStandardSurface", {"baseColor", "outColor"}>>,
       <<M2, "aiStandardSurface", {"baseColor", "emissionColor", "outColor"}>>,
       <<SG1, "shadingEngine", SGAttrs>>,
       <<SG2, "shadingEngine", SGAttrs>>,
       <<F1, "file", FileAttrs>>,
       <<W1, "MASH_Waiter", {"inputPoints"}>>,
       <<D1, "MASH_Distribute", {"outputPoints", "strengthMap", "useStrengthMap"}>> >>,
    << C(F1, "outColor", M1, "baseColor"),
       C(F1, "outColor", M2, "baseColor"),
       C(F1, "outColor", M2, "emissionColor"),
       C(M1, "outColor", SG1, "surfaceShader"),
       C(M2, "outColor", SG2, "surfaceShader"),
       C(D1, "outputPoints", W1, "inputPoints") >>,
    << <<Plug(F1, "fileTextureName"), Path("a.png")>> >>,
    << <<SG1, {"meshA"}>>, <<SG2, {"meshB"}>> >>,
    AllTypes)

\* a blend whose first input is fed by a sampler behind a colour correction
\* and whose second input is fed by a sampler directly
SceneN ==
  MkScene(
    << <<M1, "aiStandardSurface", {"baseColor", "outColor"}>>,
       <<SG1, "shadingEngine", SGAttrs>>,
       <<P2, "blendColors", {"color1", "color2", "output"}>>,
       <<P1, "colorCorrect", {"inColor", "outColor"}>>,
       <<F2, "file", FileAttrs>>,
       <<F1, "file", FileAttrs>> >>,
    << C(F2, "outColor", P1, "inColor"),
       C(P1, "outColor", P2, "color1"),
       C(F1, "outColor", P2, "color2"),
       C(P2, "output", M1, "baseColor"),
       C(M1, "outColor", SG1, "surfaceShader") >>,
    << <<Plug(F1, "fileTextureName"), Path("")>>,
       <<Plug(F2, "fileTextureName"), Path("far.png")>> >>,
    << <<SG1, {"meshA"}>> >>,
    AllTypes)

Setups ==
  { Setup(SceneA, "single", M1, <<>>, {NoNode, T1, T0, TS}, NoNode,
          {"Redshift", "Arnold"}, {F1, M1}),
    Setup(SceneB(AllTypes), "single", M1, <<>>, {NoNode, T1}, NoNode,
          {"Redshift", "Maya"}, {}),
    Setup(SceneB(NoRedshiftTypes), "single", M1, <<>>, {NoNode}, NoNode,
          {"Redshift"}, {}),
    Setup(SceneC, "single", M1, <<>>, {NoNode, T1}, NoNode, {"Redshift"}, {}),
    Setup(SceneD, "single", M1, <<>>, {T1}, NoNode, {"Redshift"}, {}),
    Setup(SceneJ(AllTypes), "single", M1, <<>>, {NoNode}, NoNode,
          {"Redshift", "Maya"}, {}),
    Setup(SceneJ(NoBumpTypes), "single", M1, <<>>, {NoNode}, NoNode,
          {"Redshift"}, {}),
    Setup(SceneK, "single", M1, <<>>, {NoNode}, NoNode,
          {"Redshift", "Arnold", "Maya"}, {}),
    Setup(SceneL, "single", M1, <<>>, {T1}, NoNode, {"Redshift", "MASH"}, {}),
    Setup(SceneM, "multi", NoNode, <<M1, M2>>, {NoNode}, W1, {"MASH"}, {}),
    Setup(SceneN, "single", M1, <<>>, {NoNode}, NoNode, {"Redshift"}, {}),
    Setup(SceneG, "multi", NoNode, <<M1, M2>>, {NoNode, T1}, NoNode,
          {"Redshift"}, {}) }
  \cup { Setup(SceneE(m1, m2), "single", M1, <<>>, {T1}, NoNode, {"Redshift"}, {})
         : m1 \in {"texture", "value"}, m2 \in {"texture", "value"} }
  \cup { Setup(SceneF(driven), "single", M1, <<>>, {NoNode}, W1,
               {"Redshift", "MASH"}, {})
         : driven \in BOOLEAN }
  \cup { Setup(SceneH(w), "single", M1, <<>>, {T1}, NoNode,
               {"Redshift", "Arnold"}, {})
         : w \in {0, 30} }
  \cup { Setup(SceneI(x[1], x[2]), "single", M1, <<>>, {NoNode, T1}, NoNode,
               {"Redshift"}, {})
         : x \in {<<"baseColor", "outColor">>, <<"metalness", "outAlpha">>} }

\* NodeFlowTool.__init__: the first renderer is current, nothing is scanned
Init ==
  \E su \in Setups :
    \E t \in su.tgt_fields :
      /\ scene = su.sc
      /\ ui = [mode |-> su.mode, src_field |-> su.src_field,
               shader_list |-> su.shader_list, tgt_field |-> t,
               mash_field |-> su.mash_field,
               renderer |-> RENDERER_OPTIONS[1],
               material |-> get_available_materials(su.sc, RENDERER_OPTIONS[1])[1],
               all_data |-> <<>>, transfer_enabled |-> FALSE,
               runs |-> 0, deletes |-> 0,
               renderers |-> su.renderers, deletable |-> su.deletable]
      /\ run = IdleRun
      /\ calls = <<>>
      /\ assigned = NoAssign
      /\ dialog = <<>>
      /\ last = "init"

Next ==
  \/ \E v \in ui.renderers : _on_renderer_changed(v)
  \/ _scan
  \/ _transfer_error
  \/ _transfer_validate_raises
  \/ _transfer_rejected
  \/ _transfer_accepted
  \/ _transfer_shader
  \/ _transfer_shader_skipped
  \/ do_transfer_step
  \/ do_transfer_raises
  \/ do_transfer_returns
  \/ _transfer_done
  \/ \E n \in ui.deletable : delete_node(n)

Spec == Init /\ [][Next]_vars

\* ------------------------------------------------------------------------
\*  Properties
\* ------------------------------------------------------------------------

\* the lines of log with one of the tags
Tagged(log, tags) == SelectSeq(log, LAMBDA l : l.tag \in tags)

\* calls[i] and calls[i+1] are two do_transfer calls with the same plan and
\* the same existing target node, both returned, and nothing changed the
\* graph between them
IsRerun(i) ==
  /\ i \in DOMAIN calls /\ (i + 1) \in DOMAIN calls
  /\ ~calls[i].raised /\ ~calls[i + 1].raised
  /\ calls[i].target_node # NoNode
  /\ calls[i + 1].data = calls[i].data
  /\ calls[i + 1].target_node = calls[i].target_node
  /\ calls[i + 1].target_mat = calls[i].target_mat
  /\ calls[i + 1].mash_waiter = calls[i].mash_waiter
  /\ calls[i + 1].before = calls[i].after

\* C1: the second of two executions of the same plan against the same
\* existing target, with no graph change in between, logs no OK line
\* (neither [OK-T] nor [OK-V]).
C1_SecondRunLogsNoOK ==
  \A i \in DOMAIN calls :
    IsRerun(i) => count_tags(calls[i + 1].log, {"OK-T", "OK-V"}) = 0

\* C2: re-running do_transfer with the same plan and target leaves the set of
\* nodes and the set of connections as they were after the first run.
C2_RerunKeepsGraph ==
  \A i \in DOMAIN calls :
    IsRerun(i) =>
      /\ DOMAIN calls[i + 1].after.kind = DOMAIN calls[i].after.kind
      /\ calls[i + 1].after.conn = calls[i].after.conn

\* the nodes build_converted_node created for original node o between the
\* graphs before and after
ConvertedFrom(o, before, after) ==
  { n \in DOMAIN after.kind \ DOMAIN before.kind :
      /\ Len(n) = Len(o) + 2
      /\ SubSeq(n, 1, Len(o)) = o
      /\ n[Len(o) + 1] = "_RSconv" }

\* one invocation seen through its cache, log and the graphs around it:
\* one created node per original, the cache names it, and an original
\* connection into a converted node is rebuilt from the cached conversion of
\* its source
OneConversionEach(cache, log, before, after, target_renderer) ==
  /\ \A o \in DOMAIN before.kind :
        /\ Cardinality(ConvertedFrom(o, before, after)) <= 1
        /\ \A n \in ConvertedFrom(o, before, after) :
              o \in DOMAIN cache /\ cache[o] = n
  /\ \A i, j \in DOMAIN log :
        (log[i].tag = "CREATE" /\ log[j].tag = "CREATE" /\ log[i].a = log[j].a)
        => i = j
  /\ \A c \in before.conn :
        (/\ c.s[1] \in DOMAIN cache /\ c.d[1] \in DOMAIN cache
         /\ cache[c.d[1]] # c.d[1]
         /\ \E p \in Range(Conversion(before.kind[c.d[1]], target_renderer).inputs) :
               p[1] = c.d[2])
        => LET rs == Conversion(before.kind[c.s[1]], target_renderer)
               rd == Conversion(before.kind[c.d[1]], target_renderer)
               src == Plug(cache[c.s[1]],
                           IF cache[c.s[1]] # c.s[1]
                           THEN Get(rs.outputs, c.s[2], c.s[2]) ELSE c.s[2])
               dst == Plug(cache[c.d[1]], Get(rd.inputs, c.d[2], c.d[2]))
           IN (/\ src[2] \in after.attrs[src[1]]
               /\ dst[2] \in after.attrs[dst[1]])
              => [s |-> src, d |-> dst] \in after.conn

C3_State ==
  /\ run.pc = "entries" =>
       OneConversionEach(run.cache, run.log, run.before, Graph(scene),
                         get_renderer_from_mat_type(run.target_mat))
  /\ \A i \in DOMAIN calls :
       OneConversionEach(calls[i].cache, calls[i].log, calls[i].before,
                         calls[i].after,
                         get_renderer_from_mat_type(calls[i].target_mat))

C3_Step ==
  (run.pc = "entries" /\ run'.pc = "entries") =>
    \A o \in DOMAIN run.cache :
      o \in DOMAIN run'.cache /\ run'.cache[o] = run.cache[o]

\* C3: within one do_transfer invocation at most one node is created per
\* original node, converted chains that reach the same original are wired to
\* its one converted node, and an entry of converted_cache never changes.
C3_OneConversionPerNode == [](C3_State) /\ [][C3_Step]_vars

\* a returned invocation in which two converted nodes are both fed by the
\* one converted node of their shared original
C3_FanInConverted ==
  \E i \in DOMAIN calls :
    /\ ~calls[i].raised
    /\ \E o, a, b \in DOMAIN calls[i].cache :
         /\ a # b
         /\ calls[i].cache[o] # o
         /\ calls[i].cache[a] # a
         /\ calls[i].cache[b] # b
         /\ \E x, y \in calls[i].after.conn :
              /\ x.s[1] = calls[i].cache[o] /\ x.d[1] = calls[i].cache[a]
              /\ y.s[1] = calls[i].cache[o] /\ y.d[1] = calls[i].cache[b]

\* C4: no exception leaves do_transfer: every call runs to the end of the
\* plan and returns its log.
C4_NeverRaises == \A i \in DOMAIN calls : ~calls[i].raised

\* C5: scanning, validating and a rejected warning dialog leave the graph as
\* it was: no step that ends a scan, reports an error or is cancelled changes
\* the scene.
C5_NoMutationBeforeAccept ==
  [][last' \in {"scan", "cancelled", "transfer-error", "validate-raised"}
     => scene' = scene]_vars

\* the caller rejected the dialog of a run that had no target node yet
C5_Rejected ==
  /\ last = "cancelled"
  /\ dialog # <<>>
  /\ ui.tgt_field = NoNode
  /\ ui.all_data # <<>>

\* plug x carries entry e after a call: e's (converted) source drives x, or
\* x holds e's literal and nothing drives it
Carries(c, x, e) ==
  IF e.transfer_mode = "texture"
  THEN \E k \in c.after.conn :
         /\ k.d = x
         /\ k.s[1] = (IF e.source_node \in DOMAIN c.cache
                      THEN c.cache[e.source_node] ELSE e.source_node)
  ELSE /\ x \in DOMAIN c.after.lit
       /\ c.after.lit[x] = e.raw_value
       /\ ~(\E k \in c.after.conn : k.d = x)

\* C6: of two entries of a plan with the same destination attribute on the
\* same target, the later one decides what the attribute carries after
\* do_transfer, whatever the modes of the two entries.
C6_LaterEntryWins ==
  \A i \in DOMAIN calls :
    (~calls[i].raised /\ calls[i].target_node # NoNode) =>
      \A a, b \in DOMAIN calls[i].data :
        (/\ a < b
         /\ calls[i].data[a].tgt_attr = calls[i].data[b].tgt_attr
         /\ calls[i].data[a].tgt_attr \in
              calls[i].after.attrs[calls[i].target_node]
         /\ \A z \in DOMAIN calls[i].data :
              calls[i].data[z].tgt_attr = calls[i].data[a].tgt_attr
              => z \in {a, b})
        => /\ Carries(calls[i],
                      Plug(calls[i].target_node, calls[i].data[a].tgt_attr),
                      calls[i].data[b])
           /\ ~Carries(calls[i],
                       Plug(calls[i].target_node, calls[i].data[a].tgt_attr),
                       calls[i].data[a])

\* the pairs of entries of a plan with one destination attribute
SharedPairs(data) ==
  { p \in (DOMAIN data) \X (DOMAIN data) :
      p[1] < p[2] /\ data[p[1]].tgt_attr = data[p[2]].tgt_attr }

\* C7: validate_transfer returns one collision warning, naming the source
\* attributes of both entries, for a plan with exactly one pair of entries
\* on one destination attribute, and none for a plan without such a pair.
C7_OneCollisionWarning ==
  last \in {"cancelled", "accepted"} =>
    /\ Cardinality(SharedPairs(ui.all_data)) = 1 =>
         /\ Cardinality({k \in DOMAIN dialog : dialog[k].what = "conflict"}) = 1
         /\ \A p \in SharedPairs(ui.all_data) :
              \E k \in DOMAIN dialog :
                /\ dialog[k].what = "conflict"
                /\ dialog[k].a = ui.all_data[p[1]].shader_attr
                /\ dialog[k].b = ui.all_data[p[2]].shader_attr
    /\ SharedPairs(ui.all_data) = {} =>
         \A k \in DOMAIN dialog : dialog[k].what # "conflict"

\* the validator reported the collision of a plan with one shared destination
C7_CollisionReported ==
  /\ last = "cancelled"
  /\ Cardinality(SharedPairs(ui.all_data)) = 1
  /\ \E k \in DOMAIN dialog : dialog[k].what = "conflict"

\* the nodes upstream of node n, n included
RECURSIVE UpstreamOf(_, _, _)
UpstreamOf(sc, todo, seen) ==
  IF todo \subseteq seen THEN seen
  ELSE UpstreamOf(sc,
                  UNION {Range(listConnections(sc, n)) : n \in todo \ seen},
                  seen \cup todo)

\* the entry's source is not a sampler itself and everything upstream of its
\* source plug is of a passthrough kind
PassthroughChain(sc, e) ==
  /\ e.transfer_mode = "texture"
  /\ objExists(sc, e.source_node)
  /\ nodeType(sc, e.source_node) # "file"
  /\ \A n \in UpstreamOf(sc, {e.source_node}, {}) :
        nodeType(sc, n) \in PASSTHROUGH_NODES

C8_Step ==
  (/\ run.pc = "entries" /\ run'.pc = "entries" /\ run'.i = run.i + 1
   /\ PassthroughChain(scene, run.entries[run.i]))
  => LET e == run.entries[run.i]
         chain == UpstreamOf(scene, {e.source_node}, {})
         added == SubSeq(run'.log, Len(run.log) + 1, Len(run'.log))
     IN /\ DOMAIN scene'.kind = DOMAIN scene.kind
        /\ scene'.kind = scene.kind
        /\ Tagged(added, {"CREATE", "WIRE", "WIRE-FAIL", "SKIP-WIRE", "SET"}) = <<>>
        /\ \A k \in DOMAIN added :
              added[k].tag \in {"OK-T", "FAIL"} => added[k].a = e.source_plug
        /\ \A c \in Range(scene.conn) :
              c.d[1] \in chain => c \in Range(scene'.conn)
        /\ \A c \in Range(scene'.conn) \ Range(scene.conn) :
              /\ c.s = e.source_plug
              /\ c.d[1] \notin chain
              /\ c.d[2] = e.tgt_attr \/ e.tgt_attr = "_displacement_"
                 \/ run.target_mat = "MASH"

\* C8: for an entry whose upstream nodes are all of a passthrough kind no
\* node is created, the original plug is the one connected, no connection
\* between the chain's nodes changes, and the only connection added is the
\* one into the destination attribute.
C8_PassthroughUntouched == [][C8_Step]_vars

\* an entry behind a chain of passthrough nodes has just been connected
C8_PassthroughConnected ==
  /\ last = "entry"
  /\ run.pc = "entries" /\ run.i > 1
  /\ PassthroughChain(scene, run.entries[run.i - 1])
  /\ Cardinality(UpstreamOf(scene, {run.entries[run.i - 1].source_node}, {})) >= 3
  /\ run.log # <<>>
  /\ run.log[Len(run.log)].tag = "OK-T"
  /\ run.log[Len(run.log)].a = run.entries[run.i - 1].source_plug

\* the destination side of a call: the target material, the shading groups
\* connected to it, and the MASH nodes
DestSide(c) ==
  {c.target_node}
  \cup { n \in DOMAIN c.before.kind :
           /\ c.before.kind[n] = "shadingEngine"
           /\ \E k \in c.before.conn :
                \/ (k.s[1] = c.target_node /\ k.d[1] = n)
                \/ (k.d[1] = c.target_node /\ k.s[1] = n) }
  \cup { n \in DOMAIN c.before.kind :
           c.before.kind[n] \in {"MASH_Waiter", "MASH_Distribute", "MASH_Color"} }

\* the shading groups connected to the old material of a call
OldGroups(c) ==
  { n \in DOMAIN c.before.kind :
      /\ c.before.kind[n] = "shadingEngine"
      /\ \E k \in c.before.conn :
           \/ (k.s[1] = c.shader /\ k.d[1] = n)
           \/ (k.d[1] = c.shader /\ k.s[1] = n) }

\* the pre-existing nodes of call c are all in graph g, and those outside
\* the destination side have the incoming connections and literals they had
GraphKept(c, g) ==
  /\ c.shader \in DOMAIN g.kind
  /\ DOMAIN c.before.kind \subseteq DOMAIN g.kind
  /\ \A n \in DOMAIN c.before.kind \ DestSide(c) :
        /\ {k \in g.conn : k.d[1] = n} = {k \in c.before.conn : k.d[1] = n}
        /\ \A p \in DOMAIN c.before.lit :
              p[1] = n => (p \in DOMAIN g.lit /\ g.lit[p] = c.before.lit[p])
        /\ \A p \in DOMAIN g.lit : p[1] = n => p \in DOMAIN c.before.lit

\* the reassignment recorded in assigned belongs to the call that returned last
AssignedLast ==
  /\ last = "returned"
  /\ calls # <<>>
  /\ assigned.done
  /\ assigned.new_shader = calls[Len(calls)].target_node
  /\ assigned.old_shader = calls[Len(calls)].shader
  /\ calls[Len(calls)].target_mat # "MASH"

\* the members of the groups in gs are as they were before the reassignment
\* (a member is connected into its group in the host: an incoming connection)
MembersKept(gs) ==
  \A g \in gs \cap DOMAIN assigned.before :
    g \in DOMAIN assigned.after /\ assigned.after[g] = assigned.before[g]

\* C9 as stated: after do_transfer and assign_shader_to_meshes every
\* pre-existing node still exists, and every pre-existing node outside the
\* destination side keeps its incoming connections (the members connected
\* into a shading group among them) and its literals.
C9_OnlyDestinationWritten ==
  /\ \A i \in DOMAIN calls : GraphKept(calls[i], calls[i].after)
  /\ last = "returned" => GraphKept(calls[Len(calls)], Graph(scene))
  /\ AssignedLast =>
       MembersKept(DOMAIN calls[Len(calls)].before.kind
                   \ DestSide(calls[Len(calls)]))

\* C9 amended: as stated, except that the shading groups of the old material
\* give up their members to the new material's group.
C9_OnlyDestinationAndOldGroups ==
  /\ \A i \in DOMAIN calls : GraphKept(calls[i], calls[i].after)
  /\ last = "returned" => GraphKept(calls[Len(calls)], Graph(scene))
  /\ AssignedLast =>
       MembersKept(DOMAIN calls[Len(calls)].before.kind
                   \ (DestSide(calls[Len(calls)]) \cup OldGroups(calls[Len(calls)])))

\* a run converted a node, wrote to the target and moved the consumers
C9_RunWroteAndAssigned ==
  /\ AssignedLast
  /\ assigned.ret > 0
  /\ calls[Len(calls)].after # calls[Len(calls)].before
  /\ DOMAIN calls[Len(calls)].after.kind # DOMAIN calls[Len(calls)].before.kind
  /\ count_tags(calls[Len(calls)].log, {"OK-T"}) > 0

\* the consumers of the old material before the reassignment
Consumers == UNION { assigned.before[g] : g \in Range(assigned.old_sgs) }

Scanned ==
  /\ last = "scan"
  /\ ~_get_source_shaders(scene, ui).err
  /\ \A s \in Range(_get_source_shaders(scene, ui).shaders) : objExists(scene, s)

ScannedShaders == Range(_get_source_shaders(scene, ui).shaders)

\* the positions of the plan that belong to slot src_attr of shader s
EntriesFor(s, src_attr) ==
  { i \in DOMAIN ui.all_data :
      ui.all_data[i].shader = s /\ ui.all_data[i].shader_attr = src_attr }

\* slot src_attr of shader s holds a readable literal and nothing drives it
Unconnected(s, src_attr) ==
  /\ attributeQuery(scene, src_attr, s)
  /\ \A i \in DOMAIN scene.conn : scene.conn[i].d # Plug(s, src_attr)
  /\ Plug(s, src_attr) \in DOMAIN scene.lit

\* C11: an unconnected emission, subsurface or coat weight of 0.0 gives no
\* entry; the same channel holding another value, applicable to the target
\* kind, gives a value-mode entry carrying that value.
C11_ZeroWeightsFiltered ==
  Scanned =>
    \A s \in ScannedShaders : \A ch \in {"emission", "subsurface", "coat"} :
      Unconnected(s, ch) =>
        IF scene.lit[Plug(s, ch)] = Val("float", <<0>>)
        THEN EntriesFor(s, ch) = {}
        ELSE ui.material \in DOMAIN MASTER_MAP[ch] =>
               \E i \in EntriesFor(s, ch) :
                  /\ ui.all_data[i].transfer_mode = "value"
                  /\ ui.all_data[i].raw_value = scene.lit[Plug(s, ch)]

\* a scan met a zero weight it left out and a weight of 0.3 it planned
C11_ZeroAndNonZeroSeen ==
  /\ Scanned
  /\ \E s \in ScannedShaders : \E c0, c1 \in {"emission", "subsurface", "coat"} :
       /\ Unconnected(s, c0) /\ scene.lit[Plug(s, c0)] = Val("float", <<0>>)
       /\ EntriesFor(s, c0) = {}
       /\ Unconnected(s, c1) /\ scene.lit[Plug(s, c1)] = Val("float", <<30>>)
       /\ \E i \in EntriesFor(s, c1) : ui.all_data[i].transfer_mode = "value"

\* ------------------------------------------------------------------------
\*  Scenarios
\* ------------------------------------------------------------------------

\* Scenario A in graph g: base colour of s driven by the colour output of
\* sampler f with a path, roughness a literal 0.35, no other slot on s
ScenarioA(g, s, f) ==
  /\ s \in DOMAIN g.kind /\ f \in DOMAIN g.kind
  /\ g.kind[f] = "file"
  /\ {k \in g.conn : k.d[1] = s}
       = {[s |-> Plug(f, "outColor"), d |-> Plug(s, "baseColor")]}
  /\ Plug(f, "fileTextureName") \in DOMAIN g.lit
  /\ g.lit[Plug(f, "fileTextureName")].v # <<"">>
  /\ g.attrs[s] \cap Range(MASTER_MAP_order) = {"baseColor", "specularRoughness"}
  /\ Plug(s, "specularRoughness") \in DOMAIN g.lit
  /\ g.lit[Plug(s, "specularRoughness")] = Val("float", <<35>>)

\* the plan of Scenario A for target kind mat
PlanA(data, s, f, mat) ==
  /\ Len(data) = 2
  /\ data[1].shader = s /\ data[2].shader = s
  /\ data[1].transfer_mode = "texture"
  /\ data[1].shader_attr = "baseColor"
  /\ data[1].source_plug = Plug(f, "outColor")
  /\ data[1].tgt_attr = MASTER_MAP["baseColor"][mat][1]
  /\ data[1].target_type = mat
  /\ data[2].transfer_mode = "value"
  /\ data[2].shader_attr = "specularRoughness"
  /\ data[2].raw_value = Val("float", <<35>>)
  /\ data[2].tgt_attr = MASTER_MAP["specularRoughness"][mat][1]
  /\ data[2].target_type = mat

\* the target of call c is of the target kind and nothing was written to it
FreshTarget(c) ==
  /\ c.target_node \in DOMAIN c.before.kind
  /\ c.before.kind[c.target_node] = c.target_mat
  /\ \A k \in c.before.conn : k.d[1] # c.target_node
  /\ \A p \in DOMAIN c.before.lit : p[1] # c.target_node

\* what Scenario A leaves: both destinations written, 2 OK lines, 0 FAIL lines
DoneA(c, f) ==
  /\ ~c.raised
  /\ [s |-> Plug(f, "outColor"), d |-> Plug(c.target_node, c.data[1].tgt_attr)]
       \in c.after.conn
  /\ Plug(c.target_node, c.data[2].tgt_attr) \in DOMAIN c.after.lit
  /\ c.after.lit[Plug(c.target_node, c.data[2].tgt_attr)] = Val("float", <<35>>)
  /\ count_tags(c.log, {"OK-T", "OK-V"}) = 2
  /\ count_tags(c.log, {"FAIL"}) = 0

PlanB(data, mat) ==
  /\ Len(data) = 1
  /\ data[1].transfer_mode = "texture"
  /\ data[1].file_node # NoNode
  /\ data[1].source_node = data[1].file_node
  /\ data[1].file_path = ""
  /\ data[1].target_type = mat

\* C13: Scenario B: for a plan of one texture entry whose sampler has an
\* empty path, validate_transfer returns the unset-source warning for that
\* entry and nothing else, and do_transfer on a fresh target still connects
\* the sampler's output to the destination and logs it OK.
C13_ScenarioB ==
  /\ (last \in {"accepted", "cancelled"}
          /\ PlanB(ui.all_data, ui.material)
          /\ (ui.tgt_field \in DOMAIN scene.kind
                => scene.kind[ui.tgt_field] = ui.material))
       => /\ Len(dialog) = 1
          /\ dialog[1].what = "no-path"
          /\ dialog[1].level = "warn"
          /\ dialog[1].entry = ui.all_data[1]
          /\ dialog[1].a = ui.all_data[1].file_node
  /\ \A i \in DOMAIN calls :
       (PlanB(calls[i].data, calls[i].target_mat)
          /\ FreshTarget(calls[i])
          /\ attributeQuery(calls[i].before, calls[i].data[1].preferred_plug,
                            calls[i].data[1].file_node))
       => /\ ~calls[i].raised
          /\ [s |-> Plug(calls[i].data[1].file_node,
                         calls[i].data[1].preferred_plug),
              d |-> Plug(calls[i].target_node, calls[i].data[1].tgt_attr)]
               \in calls[i].after.conn
          /\ count_tags(calls[i].log, {"OK-T"}) = 1
          /\ count_tags(calls[i].log, {"FAIL"}) = 0

\* the caller went on after the unset-source warning and the run connected
\* the sampler
C13_ScenarioBRan ==
  /\ last = "returned"
  /\ Len(dialog) = 1 /\ dialog[1].what = "no-path"
  /\ PlanB(calls[Len(calls)].data, calls[Len(calls)].target_mat)
  /\ FreshTarget(calls[Len(calls)])
  /\ count_tags(calls[Len(calls)].log, {"OK-T"}) = 1

\* entry j of call c is a texture entry whose source node has a rule for the
\* call's renderer that names another, available kind and remaps the output
\* the entry reads, and whose destination plug exists and is not written by a
\* later entry
ConvertibleEntry(c, j, rule) ==
  /\ c.data[j].transfer_mode = "texture"
  /\ c.data[j].source_node \in DOMAIN c.before.kind
  /\ rule = Conversion(c.before.kind[c.data[j].source_node],
                       get_renderer_from_mat_type(c.target_mat))
  /\ rule # NoRule
  /\ rule.type # c.before.kind[c.data[j].source_node]
  /\ rule.type \in scene.types
  /\ \E p \in Range(rule.outputs) : p[1] = c.data[j].source_plug[2]
  /\ c.target_node \in DOMAIN c.before.kind
  /\ c.data[j].tgt_attr \in c.before.attrs[c.target_node]
  /\ \A k \in DOMAIN c.data : k > j => c.data[k].tgt_attr # c.data[j].tgt_attr

\* one node of the rule's kind was created for the entry's source node and
\* the destination is driven by its remapped output, nothing else
WiredConverted(c, j, rule) ==
  \E n \in DOMAIN c.after.kind :
    /\ ConvertedFrom(c.data[j].source_node, c.before, c.after) = {n}
    /\ c.after.kind[n] = rule.type
    /\ {k \in c.after.conn : k.d = Plug(c.target_node, c.data[j].tgt_attr)}
         = {[s |-> Plug(n, Get(rule.outputs, c.data[j].source_plug[2],
                               c.data[j].source_plug[2])),
             d |-> Plug(c.target_node, c.data[j].tgt_attr)]}

\* the conversion rules of the catalog
Rules ==
  UNION { {NODE_CONVERSION_TABLE[k][r] : r \in DOMAIN NODE_CONVERSION_TABLE[k]}
          : k \in DOMAIN NODE_CONVERSION_TABLE }

\* C14: Scenario C: for a texture entry whose source node has a non-identity
\* rule with an available target kind, do_transfer creates exactly one node
\* of that kind for it and the destination attribute ends up driven by the
\* new node's remapped output, not by the original node.
C14_ScenarioC ==
  \A i \in DOMAIN calls : \A j \in DOMAIN calls[i].data : \A rule \in Rules :
    (~calls[i].raised /\ ConvertibleEntry(calls[i], j, rule))
    => WiredConverted(calls[i], j, rule)

\* a call converted the source node of an entry and wired the new node in
C14_ScenarioCRan ==
  /\ last = "returned"
  /\ \E j \in DOMAIN calls[Len(calls)].data : \E rule \in Rules :
        /\ ConvertibleEntry(calls[Len(calls)], j, rule)
        /\ WiredConverted(calls[Len(calls)], j, rule)
        /\ rule.outputs # <<>>
        /\ rule.outputs[1][1] # rule.outputs[1][2]

\* ------------------------------------------------------------------------
\*  The converter
\* ------------------------------------------------------------------------

\* kind k has a rule for target_renderer that names another, available kind
HasLiveRule(k, target_renderer) ==
  \E rule \in {Conversion(k, target_renderer)} :
     rule # NoRule /\ rule.type # k /\ rule.type \in allNodeTypes(scene)

\* the entry handled last went through resolve_output_plug and its plug was
\* connected: the log's last line names the plug returned
ResolvedLast ==
  /\ last = "entry"
  /\ run.pc = "entries" /\ run.i > 1
  /\ run.entries[run.i - 1].transfer_mode = "texture"
  /\ objExists(scene, run.entries[run.i - 1].source_node)
  /\ nodeType(scene, run.entries[run.i - 1].source_node) # "file"
  /\ run.log # <<>>
  /\ run.log[Len(run.log)].tag = "OK-T"

Rewired(c, o, new, target_renderer) ==
  \A rule \in {Conversion(c.before.kind[o], target_renderer)} :
    /\ \A p \in Range(rule.inputs) : \A k \in c.before.conn :
          k.d = Plug(o, p[1]) =>
            /\ k.s[1] \in DOMAIN c.cache
            /\ \A cu \in {c.cache[k.s[1]]} :
               \A a \in {IF cu # k.s[1]
                         THEN Get(Conversion(c.before.kind[k.s[1]],
                                             target_renderer).outputs,
                                  k.s[2], k.s[2])
                         ELSE k.s[2]} :
                  (a \in c.after.attrs[cu] /\ p[2] \in c.after.attrs[new])
                  => {x \in c.after.conn : x.d = Plug(new, p[2])}
                       = {[s |-> Plug(cu, a), d |-> Plug(new, p[2])]}
    /\ \A q \in Range(rule.post_set) :
          q[1] \in c.after.attrs[new]
          => /\ Plug(new, q[1]) \in DOMAIN c.after.lit
             /\ c.after.lit[Plug(new, q[1])] = Val("int", <<q[2]>>)

\* C16: a node created for an original node has every remapped input that
\* was driven in the original driven by the converted reference of its
\* source, through that source's own output remap when the source was
\* converted, and carries every post_set literal of its rule.
C16_InputsRewired ==
  \A i \in DOMAIN calls : \A o \in DOMAIN calls[i].before.kind :
    \A new \in ConvertedFrom(o, calls[i].before, calls[i].after) :
      Rewired(calls[i], o, new, get_renderer_from_mat_type(calls[i].target_mat))

\* a call created a node that carries a post_set literal and is driven by
\* another created node through a renamed output
C16_RewiredSeen ==
  \E j \in DOMAIN calls :
    \E k \in calls[j].before.conn :
      \E x \in calls[j].after.conn :
         /\ x.s[1] \in ConvertedFrom(k.s[1], calls[j].before, calls[j].after)
         /\ x.d[1] \in ConvertedFrom(k.d[1], calls[j].before, calls[j].after)
         /\ x.s[2] # k.s[2]
         /\ \E p \in DOMAIN calls[j].after.lit : p[1] = x.d[1]

\* kind k has a rule for target_renderer that names another kind the host
\* does not have
HasDeadRule(k, target_renderer) ==
  \E rule \in {Conversion(k, target_renderer)} :
     rule # NoRule /\ rule.type # k /\ rule.type \notin allNodeTypes(scene)

\* the nodes the running call has met whose rule names an unavailable kind
DeadRuleNodes ==
  { o \in DOMAIN run.cache :
      /\ objExists(scene, o)
      /\ HasDeadRule(nodeType(scene, o), get_renderer_from_mat_type(run.target_mat)) }

\* C17: a node whose rule names an unavailable kind is kept as its own
\* conversion with one log line and no node created, and the nodes upstream
\* of it are still walked as they are for a node without a rule (each is
\* entered in the cache).
C17_UnavailableKeptAndRecursed ==
  run.pc = "entries" =>
    /\ \A o \in DeadRuleNodes :
          /\ run.cache[o] = o
          /\ ConvertedFrom(o, run.before, Graph(scene)) = {}
          /\ UpstreamOf(scene, {o}, {}) \subseteq DOMAIN run.cache
    /\ Cardinality({i \in DOMAIN run.log : run.log[i].tag = "WARN"})
         = Cardinality(DeadRuleNodes)

\* ---- C18 ----------------------------------------------------------------

NoRepeat(seq) == \A i, j \in DOMAIN seq : seq[i] = seq[j] => i = j

\* the walk walk_upstream_for_file makes from node n of the present scene
FileWalk(n) == walk_upstream(scene, n, NewWalk)

\* C18: both walks end on every graph, cycles included: a walk goes into a
\* node at most once (per visited set, per cache), so into no more nodes than
\* the scene has, and every node the converter went into is in its cache.
C18_WalksTerminate ==
  /\ \A n \in DOMAIN scene.kind :
       \E w \in {FileWalk(n)} :
          /\ NoRepeat(w.walked)
          /\ Range(w.walked) = w.visited
          /\ Len(w.walked) <= Cardinality(DOMAIN scene.kind)
  /\ NoRepeat(run.walked)
  /\ Range(run.walked) = DOMAIN run.cache
  /\ Len(run.walked) <= Cardinality(DOMAIN scene.kind)
  /\ \A i \in DOMAIN calls :
       /\ NoRepeat(calls[i].walked)
       /\ Range(calls[i].walked) = DOMAIN calls[i].cache

\* C18 witness: a call ended whose converter went into two nodes that drive
\* each other, and the file walk from one of them found the sampler behind
\* the cycle.
C18_CycleWalked ==
  \E i \in DOMAIN calls :
    \E a, b \in Range(calls[i].walked) :
       /\ a # b
       /\ a \in UpstreamOf(scene, {b}, {}) /\ b \in UpstreamOf(scene, {a}, {})
       /\ calls[i].cache[a] # a
       /\ FileWalk(a).results # <<>>

\* ---- C19 ----------------------------------------------------------------

\* build_converted_node keeps a node of kind k for the renderer: passthrough
\* kind, no rule, identity rule, or a rule whose kind the host does not have
KeptKind(sc, k, target_renderer) ==
  \/ k \in PASSTHROUGH_NODES
  \/ Conversion(k, target_renderer) = NoRule
  \/ Conversion(k, target_renderer).type = k
  \/ Conversion(k, target_renderer).type \notin sc.types

\* the plug the claim names for source plug p of the scene sc, given the cache
\* after the call
ClaimedPlug(sc, p, target_renderer, cache) ==
  IF KeptKind(sc, sc.kind[p[1]], target_renderer) THEN p
  ELSE Plug(cache[p[1]],
            Get(Conversion(sc.kind[p[1]], target_renderer).outputs, p[2], p[2]))

\* C19: the plug resolve_output_plug returns for n.a (the plug do_transfer
\* then connects, named in the entry's [OK]/[FAIL] line) is n.a itself when n
\* is kept (passthrough kind, no rule, identity rule, unavailable kind), and
\* otherwise the converted node of n with the rule's output remap of a, or a
\* itself when the remap has no key a.
C19_ResolvedPlug ==
  [][ (/\ run.pc = "entries" /\ run'.pc = "entries" /\ run'.i = run.i + 1
       /\ Len(run'.log) > Len(run.log)
       /\ run.entries[run.i].transfer_mode = "texture"
       /\ scene.kind[run.entries[run.i].source_node] # "file"
       /\ run'.log[Len(run'.log)].tag \in {"OK-T", "FAIL"})
      => \E e \in {run.entries[run.i]} :
           /\ run'.log[Len(run'.log)].a
                = ClaimedPlug(scene, e.source_plug,
                              get_renderer_from_mat_type(run.target_mat), run'.cache)
           /\ KeptKind(scene, scene.kind[e.source_node],
                       get_renderer_from_mat_type(run.target_mat))
                <=> run'.cache[e.source_node] = e.source_node
           /\ run'.cache[e.source_node] \in DOMAIN scene'.kind ]_vars

\* the call's log names plug p as the source connected to the entry's
\* destination
Connected(c, e, p) ==
  \E k \in DOMAIN c.log :
     /\ c.log[k].tag \in {"OK-T", "FAIL"}
     /\ c.log[k].b = Plug(c.target_node, e.tgt_attr)
     /\ c.log[k].a = p

\* C19 witness: one call resolved a plug of a kept node to itself, a plug of
\* a converted node to the renamed output of the new node, and a plug of a
\* converted node whose output has no key in the remap to the same output of
\* the new node.
C19_AllCasesResolved ==
  \E i \in DOMAIN calls :
    \E c \in {calls[i]} :
      \E j1, j2, j3 \in DOMAIN c.data :
        \E e1 \in {c.data[j1]}, e2 \in {c.data[j2]}, e3 \in {c.data[j3]} :
          \E rule \in Rules :
            /\ ~c.raised
            /\ e1.transfer_mode = "texture" /\ e2.transfer_mode = "texture"
            /\ e3.transfer_mode = "texture"
            /\ {e1.source_node, e2.source_node, e3.source_node}
                 \subseteq DOMAIN c.cache
            /\ c.cache[e1.source_node] = e1.source_node
            /\ Connected(c, e1, e1.source_plug)
            /\ c.cache[e2.source_node] # e2.source_node
            /\ \E p \in Range(rule.outputs) :
                  /\ p[1] = e2.source_plug[2] /\ p[2] # p[1]
                  /\ Connected(c, e2, Plug(c.cache[e2.source_node], p[2]))
            /\ c.cache[e3.source_node] # e3.source_node
            /\ Connected(c, e3, Plug(c.cache[e3.source_node], e3.source_plug[2]))
            /\ e3.source_plug[2] \notin
                 {p[1] : p \in Range(Conversion(c.before.kind[e3.source_node],
                            get_renderer_from_mat_type(c.target_mat)).outputs)}

\* ---- C20 ----------------------------------------------------------------

\* the place of slot a in the declaration order of the slot map
SlotPos(a) == CHOOSE i \in DOMAIN MASTER_MAP_order : MASTER_MAP_order[i] = a

Drivers(s, src_attr) ==
  { scene.conn[i].s : i \in {k \in DOMAIN scene.conn :
                               scene.conn[k].d = Plug(s, src_attr)} }

\* a literal the planner leaves out: black for a colour other than the base
\* and specular colours, zero for a weight
FilteredDefault(src_attr, val) ==
  \/ val = Val("color", <<0, 0, 0>>)
       /\ src_attr \notin {"baseColor", "color", "specularColor"}
  \/ val = Val("float", <<0>>) /\ src_attr \in {"emission", "subsurface", "coat"}

\* slot src_attr of shader s is to give an entry, literals being carried for
\* the slots of value_slots
Planned(s, src_attr, value_slots) ==
  /\ ui.material \in DOMAIN MASTER_MAP[src_attr]
  /\ attributeQuery(scene, src_attr, s)
  /\ \/ Drivers(s, src_attr) # {}
     \/ /\ src_attr \in value_slots
        /\ Unconnected(s, src_attr)
        /\ ~FilteredDefault(src_attr, scene.lit[Plug(s, src_attr)])

\* the plan of the last scan is, shader by shader, in slot-map order, one
\* entry for each planned slot (a connected slot gives a texture entry with its
\* source plug, an unconnected one a value entry with its literal) and nothing
\* else
PlanIsExact(value_slots) ==
  /\ \A i, j \in DOMAIN ui.all_data :
        (i < j /\ ui.all_data[i].shader = ui.all_data[j].shader)
        => SlotPos(ui.all_data[i].shader_attr) < SlotPos(ui.all_data[j].shader_attr)
  /\ \A i \in DOMAIN ui.all_data : ui.all_data[i].shader \in ScannedShaders
  /\ \A s \in ScannedShaders : \A src_attr \in DOMAIN MASTER_MAP :
        IF Planned(s, src_attr, value_slots)
        THEN \E i \in EntriesFor(s, src_attr) :
                /\ EntriesFor(s, src_attr) = {i}
                /\ ui.all_data[i].tgt_attr = MASTER_MAP[src_attr][ui.material][1]
                /\ IF Drivers(s, src_attr) # {}
                   THEN /\ ui.all_data[i].transfer_mode = "texture"
                        /\ ui.all_data[i].source_plug \in Drivers(s, src_attr)
                   ELSE /\ ui.all_data[i].transfer_mode = "value"
                        /\ ui.all_data[i].raw_value = scene.lit[Plug(s, src_attr)]
        ELSE EntriesFor(s, src_attr) = {}

\* C20 as stated: collect_data returns, in slot-map order, exactly one entry
\* for each applicable, present slot that is connected (texture entry with the
\* source plug) or unconnected with a literal that is not a filtered default
\* (value entry with the literal), and no entry for any other slot.
C20_PlanExact == Scanned => PlanIsExact(DOMAIN MASTER_MAP)

\* C20 amended: the same, where an unconnected slot gives a value entry only
\* if it is one of the slots of VALUE_MAP; an unconnected slot outside
\* VALUE_MAP gives no entry whatever its literal.
C20_PlanExactForValueSlots == Scanned => PlanIsExact(VALUE_MAP)

\* C20 witness: a scan planned a texture entry and a value entry, left out a
\* filtered default, and left out a slot outside VALUE_MAP that holds a
\* literal which is no default.
C20_PlanSeen ==
  /\ Scanned
  /\ \E s \in ScannedShaders : \E a1, a2, a3, a4 \in DOMAIN MASTER_MAP :
       /\ \E i \in EntriesFor(s, a1) : ui.all_data[i].transfer_mode = "texture"
       /\ \E i \in EntriesFor(s, a2) : ui.all_data[i].transfer_mode = "value"
       /\ Unconnected(s, a3) /\ a3 \in VALUE_MAP
       /\ FilteredDefault(a3, scene.lit[Plug(s, a3)])
       /\ EntriesFor(s, a3) = {}
       /\ Unconnected(s, a4) /\ a4 \notin VALUE_MAP
       /\ ui.material \in DOMAIN MASTER_MAP[a4]
       /\ ~FilteredDefault(a4, scene.lit[Plug(s, a4)])
       /\ EntriesFor(s, a4) = {}

\* ---- C21 ----------------------------------------------------------------

\* kind k has a rule for the renderer that names another kind
NonIdentityRule(k, target_renderer) ==
  /\ Conversion(k, target_renderer) # NoRule
  /\ Conversion(k, target_renderer).type # k

\* the auto-conversion warnings the dialog holds for entry e
AutoConvertFor(e) ==
  { k \in DOMAIN dialog : dialog[k].what = "auto-convert" /\ dialog[k].entry = e }

\* C21: validate_transfer reports a pending auto-conversion for a texture
\* entry exactly when a node of the entry's upstream chain (its source node
\* or a node upstream of it) has a non-identity rule for the target renderer,
\* and the warning names the old and the new kind.
C21_AutoConvertForChain ==
  last \in {"cancelled", "accepted"} =>
    \A j \in DOMAIN ui.all_data :
      \E e \in {ui.all_data[j]} :
        e.transfer_mode = "texture" =>
          /\ AutoConvertFor(e) # {}
               <=> \E n \in UpstreamOf(scene, {e.source_node}, {}) :
                      NonIdentityRule(nodeType(scene, n),
                                      get_renderer_from_mat_type(ui.material))
          /\ \A k \in AutoConvertFor(e) :
                \E n \in UpstreamOf(scene, {e.source_node}, {}) :
                   /\ dialog[k].a = nodeType(scene, n)
                   /\ dialog[k].b = Conversion(nodeType(scene, n),
                          get_renderer_from_mat_type(ui.material)).type

\* ---- C22 ----------------------------------------------------------------

\* the destination node _transfer hands to validate_transfer
TentativeTarget ==
  IF ui.tgt_field # NoNode /\ objExists(scene, ui.tgt_field)
  THEN ui.tgt_field ELSE NoNode

\* the error-severity issues the dialog holds for entry e
ErrorsFor(e) ==
  { k \in DOMAIN dialog : dialog[k].level = "error" /\ dialog[k].entry = e }

\* the entry is written to the destination node itself: not to the shading
\* group (displacement) and not to a node of a MASH network
OnTargetNode(e) ==
  /\ ui.material # "MASH"
  /\ e.tgt_attr \notin {"_displacement_", "MASH_Color.texture",
                        "MASH_Distribute.strengthMap"}

\* C22 as stated: with a tentative destination node, validate_transfer
\* reports an error for every entry whose destination attribute the node does
\* not expose and none for an entry whose destination attribute exists; with
\* no destination node it reports no missing-attribute error.
C22_MissingAttributeErrors ==
  last \in {"cancelled", "accepted"} =>
    \A j \in DOMAIN ui.all_data :
      \E e \in {ui.all_data[j]} :
        IF TentativeTarget = NoNode THEN ErrorsFor(e) = {}
        ELSE ErrorsFor(e) # {}
               <=> ~attributeQuery(scene, e.tgt_attr, TentativeTarget)

\* C22 amended: the same for the entries written to the destination node
\* itself; an entry routed to the shading group (displacement) or to a MASH
\* network gets no missing-attribute error although the node does not expose
\* its destination name.
C22_MissingAttributeErrorsOnTarget ==
  last \in {"cancelled", "accepted"} =>
    \A j \in DOMAIN ui.all_data :
      \E e \in {ui.all_data[j]} :
        IF TentativeTarget = NoNode \/ ~OnTargetNode(e) THEN ErrorsFor(e) = {}
        ELSE /\ ErrorsFor(e) # {}
                  <=> ~attributeQuery(scene, e.tgt_attr, TentativeTarget)
             /\ \A k \in ErrorsFor(e) :
                   /\ dialog[k].what = "no-attr"
                   /\ dialog[k].a = e.tgt_attr /\ dialog[k].b = TentativeTarget

\* C22 witness: one validation against a destination node reported a missing
\* attribute for one entry, none for another whose attribute exists, and none
\* for a displacement entry.
C22_MissingAndPresentSeen ==
  /\ last \in {"cancelled", "accepted"}
  /\ TentativeTarget # NoNode
  /\ \E i, j, d \in DOMAIN ui.all_data :
       /\ OnTargetNode(ui.all_data[i]) /\ OnTargetNode(ui.all_data[j])
       /\ ErrorsFor(ui.all_data[i]) # {}
       /\ ErrorsFor(ui.all_data[j]) = {}
       /\ attributeQuery(scene, ui.all_data[j].tgt_attr, TentativeTarget)
       /\ ui.all_data[d].tgt_attr = "_displacement_"
       /\ ErrorsFor(ui.all_data[d]) = {}

\* ---- C23 ----------------------------------------------------------------

\* the converter's state at the start of the step the run takes next
ConverterNow ==
  [sc |-> scene, cache |-> run.cache, log |-> run.log, walked |-> run.walked,
   ret |-> NoPlug]

\* the plug the claim names for the entry the run takes next
PlugToConnect(e) ==
  IF nodeType(scene, e.source_node) = "file"
  THEN Plug(e.source_node, MASTER_MAP[e.shader_attr][run.target_mat][2])
  ELSE resolve_output_plug(e.source_plug,
                           get_renderer_from_mat_type(run.target_mat),
                           ConverterNow).ret

\* C23: for a texture entry whose source node is a file sampler do_transfer
\* connects the sampler's preferred output of the slot mapping, whatever
\* output fed the source slot; for a source of another kind it connects the
\* plug resolve_output_plug returns for the entry's source plug.
C23_PreferredOrResolved ==
  [][ (/\ run.pc = "entries" /\ run'.pc = "entries" /\ run'.i = run.i + 1
       /\ Len(run'.log) > Len(run.log)
       /\ run.entries[run.i].transfer_mode = "texture"
       /\ run'.log[Len(run'.log)].tag \in {"OK-T", "FAIL"})
      => \E e \in {run.entries[run.i]} :
           \E line \in {run'.log[Len(run'.log)]} :
             /\ line.a = PlugToConnect(e)
             /\ line.tag = "OK-T" =>
                  \E k \in DOMAIN scene'.conn :
                     scene'.conn[k] = [s |-> PlugToConnect(e), d |-> line.b] ]_vars

\* C23 witness: a sampler that fed the slot by another output than the
\* preferred one was connected by the preferred one.
C23_PreferredOutputConnected ==
  /\ last = "entry" /\ run.pc = "entries" /\ run.i > 1
  /\ \E e \in {run.entries[run.i - 1]} :
       /\ e.transfer_mode = "texture"
       /\ objExists(scene, e.source_node)
       /\ nodeType(scene, e.source_node) = "file"
       /\ e.source_plug[2] # e.preferred_plug
       /\ run.log # <<>>
       /\ run.log[Len(run.log)].tag = "OK-T"
       /\ run.log[Len(run.log)].a = Plug(e.source_node, e.preferred_plug)

\* ---- C24 ----------------------------------------------------------------

\* the MASH_Color nodes call c created
ColorNodesCreated(c) ==
  { n \in DOMAIN c.after.kind \ DOMAIN c.before.kind :
      c.after.kind[n] = "MASH_Color" }

\* the MASH_Color nodes call c wrote or tried to write an entry to
ColorNodesWritten(c) ==
  { c.log[k].b[1] : k \in {x \in DOMAIN c.log :
       /\ c.log[x].tag \in {"OK-T", "OK-V", "FAIL"}
       /\ c.log[x].b[1] \in DOMAIN c.after.kind
       /\ c.after.kind[c.log[x].b[1]] = "MASH_Color"} }

\* the do_transfer calls of _transfer run r
CallsOfRun(r) == { i \in DOMAIN calls : calls[i].run = r }

\* C24: with a MASH target the colour node is created at most once per run
\* of _transfer; the entries of the run that need it all go to one node.
C24_OneColorNodePerRun ==
  \A r \in 1..MaxRuns :
    /\ Cardinality(UNION {ColorNodesCreated(calls[i]) : i \in CallsOfRun(r)}) <= 1
    /\ Cardinality(UNION {ColorNodesWritten(calls[i]) : i \in CallsOfRun(r)}) <= 1

\* C24, per call: within one do_transfer call the colour node is created at most once and
\* the entries of the call that need it all go to one node
C24_OneColorNodePerCall ==
  \A i \in DOMAIN calls :
    /\ Cardinality(ColorNodesCreated(calls[i])) <= 1
    /\ Cardinality(ColorNodesWritten(calls[i])) <= 1

\* ---- C25 ----------------------------------------------------------------

\* the file samplers at the least number of upstream steps from the nodes of
\* frontier (none: no sampler is upstream)
RECURSIVE NearestFiles(_, _, _)
NearestFiles(sc, frontier, seen) ==
  IF frontier = {} THEN {}
  ELSE IF \E x \in frontier : nodeType(sc, x) = "file"
  THEN {x \in frontier : nodeType(sc, x) = "file"}
  ELSE NearestFiles(sc,
         UNION {Range(listConnections(sc, x)) : x \in frontier}
           \ (seen \cup frontier),
         seen \cup frontier)

\* C25: the sampler collect_data records for a texture entry is a nearest
\* file sampler upstream of the entry's source node (no other sampler is
\* fewer upstream steps away), and none exactly when no sampler is upstream.
C25_NearestSampler ==
  Scanned =>
    \A j \in DOMAIN ui.all_data :
      \E e \in {ui.all_data[j]} :
        e.transfer_mode = "texture" =>
          \E near \in {NearestFiles(scene, {e.source_node}, {})} :
            IF near = {} THEN e.file_node = NoNode ELSE e.file_node \in near

\* C25, without "nearest": the recorded sampler is a file sampler upstream of the source
\* node, and none exactly when no sampler is upstream
C25_SomeSamplerUpstream ==
  Scanned =>
    \A j \in DOMAIN ui.all_data :
      \E e \in {ui.all_data[j]} :
        e.transfer_mode = "texture" =>
          \E files \in {{x \in UpstreamOf(scene, {e.source_node}, {}) :
                           nodeType(scene, x) = "file"}} :
            IF files = {} THEN e.file_node = NoNode ELSE e.file_node \in files

\* ---- C26 ----------------------------------------------------------------

\* do_transfer has taken every entry and no connect of the call failed
CallEndsClean ==
  /\ run.pc = "entries" /\ run.i > Len(run.entries)
  /\ \A k \in DOMAIN run.log :
        run.log[k].tag \notin {"WIRE-FAIL", "SKIP-WIRE", "FAIL"}

\* C26: at the end of a do_transfer call in which no connect failed, every
\* node build_converted_node created is upstream of a destination plug the
\* call connected, and drives some plug.
C26_CreatedNodesUsed ==
  CallEndsClean =>
    \A k \in DOMAIN run.log :
      run.log[k].tag = "CREATE" =>
        /\ \E m \in DOMAIN run.log :
              /\ run.log[m].tag = "OK-T"
              /\ run.log[k].b \in UpstreamOf(scene, {run.log[m].b[1]}, {})
        /\ \E x \in DOMAIN scene.conn : scene.conn[x].s[1] = run.log[k].b

\* ---- C27 ----------------------------------------------------------------

\* C27: every entry a do_transfer call executed carries the destination
\* attribute the slot map gives for its slot and the target kind the call
\* ran against.
C27_PlanForCurrentKind ==
  \A i \in DOMAIN calls : \A j \in DOMAIN calls[i].data :
    \E e \in {calls[i].data[j]} :
      /\ calls[i].target_mat \in DOMAIN MASTER_MAP[e.shader_attr]
      /\ e.tgt_attr = MASTER_MAP[e.shader_attr][calls[i].target_mat][1]

\* ---- C28 ----------------------------------------------------------------

\* C28: with a late-bound target (each source material gets a target node of
\* its own) validate_transfer reports a collision only for an entry that has
\* an earlier entry of the same source material on the same destination
\* attribute; entries of different source materials never collide.
C28_CollisionOnSamePlugOnly ==
  (/\ last \in {"cancelled", "accepted"}
   /\ TentativeTarget = NoNode /\ ui.material # "MASH")
  => \A k \in DOMAIN dialog :
       dialog[k].what = "conflict" =>
         \E i, j \in DOMAIN ui.all_data :
            /\ i < j
            /\ ui.all_data[j] = dialog[k].entry
            /\ ui.all_data[i].tgt_attr = ui.all_data[j].tgt_attr
            /\ ui.all_data[i].shader = ui.all_data[j].shader

\* ---- C29 ----------------------------------------------------------------

OutcomeTags == {"OK-T", "OK-V", "SKIP", "FAIL", "ERROR"}

\* C29: while do_transfer runs, its log holds one top-level outcome line for
\* each entry taken so far; hence the lines counted as ok and as failed are
\* no more than the entries, and at the end the outcome lines are as many as
\* the entries.
C29_OneOutcomePerEntry ==
  /\ run.pc = "entries" =>
       /\ count_tags(run.log, OutcomeTags) = run.i - 1
       /\ count_tags(run.log, {"OK-T", "OK-V"}) + count_tags(run.log, {"FAIL"})
            <= run.i - 1
  /\ \A i \in DOMAIN calls :
       ~calls[i].raised =>
         count_tags(calls[i].log, OutcomeTags) = Len(calls[i].data)

\* C29, the counts only: the lines counted as ok and as failed are no more
\* than the entries taken
C29_CountsBounded ==
  /\ run.pc = "entries" =>
       count_tags(run.log, {"OK-T", "OK-V"}) + count_tags(run.log, {"FAIL"})
         <= run.i - 1
  /\ \A i \in DOMAIN calls :
       count_tags(calls[i].log, OutcomeTags) <= Len(calls[i].data)

\* the entries of the running call were planned for the kind it runs against
PlanIsCurrent ==
  \A j \in DOMAIN run.entries :
     /\ run.target_mat \in DOMAIN MASTER_MAP[run.entries[j].shader_attr]
     /\ run.entries[j].tgt_attr
          = MASTER_MAP[run.entries[j].shader_attr][run.target_mat][1]

\* C29, for a plan made for the kind the call runs against
C29_OneOutcomePerCurrentEntry ==
  (run.pc = "entries" /\ PlanIsCurrent) =>
     count_tags(run.log, OutcomeTags) = run.i - 1

\* ---- C30 ----------------------------------------------------------------

\* kind k is never converted for renderer S: passthrough, no rule, or an
\* identity rule
Settled(k, S) ==
  \/ k \in PASSTHROUGH_NODES
  \/ Conversion(k, S) = NoRule
  \/ Conversion(k, S).type = k

\* the catalog is closed under re-conversion
CatalogClosed ==
  \A k \in DOMAIN NODE_CONVERSION_TABLE : \A S \in DOMAIN NODE_CONVERSION_TABLE[k] :
     Settled(NODE_CONVERSION_TABLE[k][S].type, S)

\* a converter with a fresh cache in the present scene
FreshConverter ==
  [sc |-> scene, cache |-> <<>>, log |-> <<>>, walked |-> <<>>, ret |-> NoNode]

\* build_converted_node for S with a fresh cache, started at node n of the
\* present scene, creates no node
CreatesNothing(n, S) ==
  \E cx \in {build_converted_node(n, S, FreshConverter)} :
     /\ DOMAIN cx.sc.kind = DOMAIN scene.kind
     /\ \A k \in DOMAIN cx.log : cx.log[k].tag # "CREATE"

\* the nodes build_converted_node has returned in the running call
ConversionOutputs ==
  { run.cache[o] : o \in DOMAIN run.cache } \cap DOMAIN scene.kind

\* C30: the conversion catalog is closed under re-conversion (the kind a rule
\* for renderer S produces is a passthrough kind, has no rule for S, or has an
\* identity rule for S), and so build_converted_node for S with a fresh cache,
\* run on a chain that a conversion to S has returned, creates no node.
C30_ReconversionCreatesNothing ==
  /\ CatalogClosed
  /\ run.pc = "entries" =>
       \A n \in ConversionOutputs :
          CreatesNothing(n, get_renderer_from_mat_type(run.target_mat))

====
